---- MODULE Spec2Model ----
(***************************************************************************)
(* Model of the transaction gossip and DAG engine of bee-p: the Tangle     *)
(* store (bee-tangle/src/tangle.rs), the WaitPriorityQueue                 *)
(* (bee-protocol/src/util/wait_priority_queue.rs), the transaction         *)
(* requester (bee-protocol/src/worker/requester/transaction.rs) and the    *)
(* per-peer sender fabric (bee-protocol/src/worker/sender.rs).             *)
(***************************************************************************)
EXTENDS Integers, Sequences, FiniteSets, Bags, TLC

(***************************************************************************)
(* Bounds of the model.                                                    *)
(***************************************************************************)
\* number of trits of a Hash in the model (243 in the program)
HashLen == 6
\* number of distinct hashes offered to the operations
NumHashes == 2
\* total number of approver entries after which no further insert is offered
MaxApproverEntries == 2
\* milestone indices offered to add_milestone / remove_milestone
MaxMilestoneIndex == 1
\* priorities (milestone indices) of the entries offered to the queue
MaxPriority == 5
\* number of entries the heap holds before no further insert is offered (SpecHeap)
MaxHeap == 5
\* milestone indices of the entries offered to the requester queue
MaxIndex == 2
\* number of entries the requester queue holds before no further insert is offered
MaxQueue == 2
\* number of messages the sender channels hold before no further request is processed
MaxChannel == 1
\* number of entries the queue holds in SpecRequester before no further insert is offered
MaxPending == 1
\* number of wake-up handles registered before no further pending poll is offered
MaxWakers == 2
\* largest capacity a TinyHashCache is constructed with
MaxCapacity == 3
\* number of distinct blobs offered to the cache
NumBlobs == 4
\* number of cache.insert calls after which no further one is offered (SpecCache)
MaxFeeds == 6
\* number of loop iterations after which a traversal is reported as still running
MaxWalkSteps == 120
\* number of events the ingest worker processes before no further one is offered
MaxEvents == 3

\* messages enqueued on the sender channels
MaxMessages == 3

\* transactions of the freely built tangles the traversals run on
MaxWalkTxs == 3

\* events an inbound channel of a worker holds before a send on it has to wait
MaxInbox == 1

\* turns of the loop of a traversal on a store that may hold a cycle
MaxCycleSteps == 30

\* how far the body sizes offered to the codec lie from the limits of the size range, and
\* by how much the transport alters a length
MaxOffset == 1

(***************************************************************************)
(* Program constants.                                                      *)
(***************************************************************************)
\* trits per byte of the T5B1 encoding
TPB == 5
\* offset between the balanced and the unbalanced value of a T5B1 byte
BAL == 121

(***************************************************************************)
(* Hashes: sequences of HashLen balanced trits.                            *)
(***************************************************************************)
RECURSIVE Pow3(_)
Pow3(n) == IF n = 0 THEN 1 ELSE 3 * Pow3(n - 1)

Btrits == {-1, 0, 1}

\* the k-th hash offered as an input: the base-3 digits of 89 * k, shifted
MkHash(k) == [i \in 1..HashLen |-> (((89 * k) \div Pow3(i - 1)) % 3) - 1]

Hashes == {MkHash(k) : k \in 1..NumHashes}

(***************************************************************************)
(* T5B1 packing (bee-ternary/src/t5b1.rs)                                  *)
(***************************************************************************)
\* `as i8` of a 16-bit value
AsI8(v) == ((v + 128) % 256) - 128

\* an i8 reinterpreted as u8 (bytemuck::cast_slice) and back
AsU8(x) == x % 256

U8AsI8(b) == IF b > 127 THEN b - 256 ELSE b

\* extract(x, elem): the balanced trit at position elem of byte x
T5B1Extract(x, elem) == (((x + BAL) \div Pow3(elem)) % 3) - 1

\* mutant: the trit is not shifted to its unbalanced value
T5B1Insert_Unshifted(x, elem, trit) ==
    LET ux == x + BAL
    IN  AsI8((ux + (trit - ((ux \div Pow3(elem)) % 3)) * Pow3(elem)) - BAL)

\* insert(x, elem, trit): byte x with the trit at position elem replaced
T5B1Insert(x, elem, trit) ==
    LET utrit == trit + 1
        ux == x + BAL
    IN  AsI8((ux + (utrit - ((ux \div Pow3(elem)) % 3)) * Pow3(elem)) - BAL)

\* T5B1Buf::push: buf is the pair (bytes, number of trits)
T5B1BufPush(buf, trit) ==
    IF buf[2] % TPB = 0
    THEN <<Append(buf[1], T5B1Insert(0, 0, trit)), buf[2] + 1>>
    ELSE <<[buf[1] EXCEPT ![Len(buf[1])] = T5B1Insert(@, buf[2] % TPB, trit)], buf[2] + 1>>

\* encode::<T5B1Buf>(): the trits pushed one by one onto a new buffer
RECURSIVE T5B1Encode(_, _)
T5B1Encode(trits, n) ==
    IF n = 0 THEN <<<<>>, 0>> ELSE T5B1BufPush(T5B1Encode(trits, n - 1), trits[n])

\* cast_slice(hash.as_trits().encode::<T5B1Buf>().as_i8_slice()): the hash as u8 bytes
HashAsT5B1Bytes(hash) ==
    LET buf == T5B1Encode(hash, Len(hash))
    IN  [k \in 1..((buf[2] + TPB - 1) \div TPB) |-> AsU8(buf[1][k])]

\* a Transaction, reduced to the two fields the store reads
Transactions == [trunk : Hashes, branch : Hashes]

VARIABLES
    vertices,           \* Tangle.vertices: DashMap<Hash, Vertex>
    approvers,          \* Tangle.approvers: DashMap<Hash, Vec<Hash>>
    milestones,         \* Tangle.milestones: DashMap<MilestoneIndex, Hash>
    solid_entry_points, \* Tangle.solid_entry_points: DashSet<Hash>
    solidifier_send,    \* the Some(hash) events sent on the solidifier channel
    tlast,              \* history: the last insert_transaction call
    tprev               \* history: the insert_transaction call before tlast

VARIABLES
    heap,               \* WaitPriorityQueue.inner.0: BinaryHeap<T>, as a bag of entries
    wakers,             \* WaitPriorityQueue.inner.1: VecDeque<Waker>, the task of each handle
    cstate,             \* per consumer task: "idle", "pending" (suspended in pop) or "woken"
    wokenFor,           \* history: per consumer, the entry whose insert woke it (<<>> if none)
    qlast,              \* history: the last queue operation and the queue before it
    popLog              \* history: the entries popped since the last insert

tangleVars == <<vertices, approvers, milestones, solid_entry_points, solidifier_send, tlast, tprev>>

VARIABLES
    requested,           \* Protocol.requested: the map Hash -> MilestoneIndex
    handshaked_peers,    \* Protocol.peer_manager.handshaked_peers, the endpoint ids
    contexts,            \* Protocol.contexts: the endpoint ids with a SenderContext
    transaction_request, \* per endpoint id, the events queued on context.transaction_request.0
    rlast                \* history: the last run of the requester and the state before it

VARIABLES
    solid_milestone_index,  \* Tangle.solid_milestone_index: AtomicU32
    last_milestone_index    \* Tangle.last_milestone_index: AtomicU32

VARIABLES
    cache_queue,                    \* TinyHashCache: the FIFO queue of blobs, oldest first
    cache_set,                      \* TinyHashCache: the companion set of blobs
    cache_capacity,                 \* TinyHashCache: the capacity fixed at construction
    cache_log,                      \* history: the blobs fed to insert and the flags returned
    milestone_validator_worker_tx,  \* the tail hashes sent to the milestone validator
    broadcast_calls,                \* the calls of Protocol::broadcast_transaction_message
    solidification_calls,           \* the calls of Protocol::trigger_*_solidification
    insert_calls,                   \* the number of insert_transaction calls of the ingest worker
    ilast                           \* history: the last event of the ingest worker

VARIABLES
    sender_channels,    \* per endpoint id and kind, the events queued on the context's channel
    network,            \* the SendBytes commands the sender tasks handed to the network
    enqueued,           \* history: the number of events handed to a sender channel
    closed,             \* the <<endpoint id, kind>> whose channel has lost its receiver
    send_failed         \* the sends on a sender channel that failed and were logged

VARIABLES
    codec,              \* a message on its way through into_full_bytes and from_full_bytes
    walked              \* the last traversal of the tangle and what it collected

VARIABLES
    teardown,           \* Tangle::shutdown, the sentinel on the solidifier channel, the solidifier
    workers,            \* per worker: its place in run(), its shutdown signal, its inbound channel
    calls               \* per task: the call it is in, step by step, and what the call returned

queueVars == <<heap, wakers, cstate, wokenFor, qlast, popLog>>

\* the ingest worker with its cache and the milestone indices it reads
ingestVars == <<solid_milestone_index, last_milestone_index, cache_queue, cache_set,
                cache_capacity, cache_log, milestone_validator_worker_tx, broadcast_calls,
                solidification_calls, insert_calls, ilast>>

senderVars == <<sender_channels, network, enqueued, closed, send_failed>>

\* the state of the components added after the store, the queue and the requester
restVars == <<ingestVars, senderVars, codec, walked, teardown, workers, calls>>

protocolVars == <<requested, handshaked_peers, contexts, transaction_request, rlast>>

queueHistory == <<wokenFor, qlast, popLog>>

vars == <<tangleVars, queueVars, protocolVars, restVars>>

(***************************************************************************)
(* Entries of the requester queue and the history of the requester         *)
(***************************************************************************)
\* TransactionRequesterWorkerEntry(Hash, MilestoneIndex)
Entry(hash, index) == [hash |-> hash, index |-> index]

NoEntry == Entry(MkHash(1), 0)

Peers == {"epid1", "epid2"}

\* history record of the step just taken when it was no run of the requester
NoRun == [op |-> "none", entry |-> NoEntry, requested_before |-> <<>>,
          peers_before |-> {}, contexts_before |-> {},
          channels_before |-> [epid \in Peers |-> <<>>]]

\* a step of anything but the requester or the protocol layer
OtherThanRequester ==
    /\ UNCHANGED <<requested, handshaked_peers, contexts, transaction_request>>
    /\ rlast' = NoRun
    /\ UNCHANGED restVars

(***************************************************************************)
(* Tangle (bee-tangle/src/tangle.rs)                                       *)
(***************************************************************************)
\* Vertex::from(transaction, hash): a fresh vertex, no flag set
VertexFrom(transaction, hash) ==
    [id |-> hash, transaction |-> transaction, solid |-> FALSE, milestone |-> FALSE]

contains_transaction(hash) == hash \in DOMAIN vertices

size == Cardinality(DOMAIN vertices)

num_approvers(hash) == IF hash \in DOMAIN approvers THEN Len(approvers[hash]) ELSE 0

\* the match on approvers.entry(key): push onto an occupied entry, or insert vec![hash]
PushApprover(map, key, hash) ==
    IF key \in DOMAIN map
    THEN [map EXCEPT ![key] = Append(@, hash)]
    ELSE (key :> <<hash>>) @@ map

\* mutant: the approver lists are written for a hash that is not stored only
ApproversAfterInsert_StoredSkipped(transaction, hash) ==
    LET afterTrunk == PushApprover(approvers, transaction.trunk, hash)
    IN  IF hash \in DOMAIN vertices THEN approvers
        ELSE IF transaction.trunk # transaction.branch
        THEN PushApprover(afterTrunk, transaction.branch, hash)
        ELSE afterTrunk

\* mutant: the branch entry is never written
ApproversAfterInsert_TrunkOnly(transaction, hash) ==
    PushApprover(approvers, transaction.trunk, hash)

\* the approvers map after both entry matches of insert_transaction
ApproversAfterInsert(transaction, hash) ==
    LET afterTrunk == PushApprover(approvers, transaction.trunk, hash)
    IN  IF transaction.trunk # transaction.branch
        THEN PushApprover(afterTrunk, transaction.branch, hash)
        ELSE afterTrunk

\* DashMap::insert(hash, vertex): stores the value under the key, replacing an old one
VerticesInsert(map, hash, vertex) == (hash :> vertex) @@ map

\* mutant: a handle is returned whether or not the hash was stored
InsertReturn_AlwaysSome(hash) == "some"

\* the Option<TransactionRef> returned: Some iff vertices.insert(..) returned None
InsertReturn(hash) == IF hash \notin DOMAIN vertices THEN "some" ELSE "none"

RECURSIVE SumLen(_, _)
SumLen(map, keys) ==
    IF keys = {} THEN 0
    ELSE LET k == CHOOSE x \in keys : TRUE
         IN  Len(map[k]) + SumLen(map, keys \ {k})

ApproverEntries == SumLen(approvers, DOMAIN approvers)

\* history record of one insert_transaction call: its arguments, its result, and what the
\* store held for `hash` and for the transaction's trunk and branch before it
TOp(op, transaction, hash, ret) ==
    [op |-> op, transaction |-> transaction, hash |-> hash, ret |-> ret,
     vertex_before |-> IF hash \in DOMAIN vertices THEN <<vertices[hash]>> ELSE <<>>,
     size_before |-> size,
     trunk_approvers_before |-> num_approvers(transaction.trunk),
     branch_approvers_before |-> num_approvers(transaction.branch)]

\* what is remembered of the call before the last one
TPrev(t) ==
    [op |-> t.op, hash |-> t.hash, ret |-> t.ret,
     stored_before |-> t.vertex_before # <<>>,
     size_before |-> t.size_before]

NoTx == [trunk |-> MkHash(1), branch |-> MkHash(1)]

NoOp == [op |-> "init", transaction |-> NoTx, hash |-> MkHash(1), ret |-> "none",
         vertex_before |-> <<>>, size_before |-> 0,
         trunk_approvers_before |-> 0, branch_approvers_before |-> 0]

\* insert_transaction(transaction, hash): its effect on the store
insert_transaction(transaction, hash) ==
    /\ approvers' = ApproversAfterInsert(transaction, hash)
    /\ vertices' = VerticesInsert(vertices, hash, VertexFrom(transaction, hash))
    /\ solidifier_send' = IF InsertReturn(hash) = "some"
                          THEN Append(solidifier_send, hash)
                          ELSE solidifier_send
    /\ UNCHANGED <<milestones, solid_entry_points>>

\* a call of insert_transaction, recorded in the history
InsertTransaction(transaction, hash) ==
    /\ insert_transaction(transaction, hash)
    /\ tlast' = TOp("insert_transaction", transaction, hash, InsertReturn(hash))
    /\ tprev' = TPrev(tlast)
    /\ UNCHANGED queueVars
    /\ OtherThanRequester

add_milestone(index, hash) ==
    /\ milestones' = (index :> hash) @@ milestones
    /\ vertices' = IF hash \in DOMAIN vertices
                   THEN [vertices EXCEPT ![hash].milestone = TRUE]
                   ELSE vertices
    /\ UNCHANGED <<approvers, solid_entry_points, solidifier_send, tlast, tprev>>
    /\ UNCHANGED queueVars
    /\ OtherThanRequester

remove_milestone(index) ==
    /\ milestones' = [i \in DOMAIN milestones \ {index} |-> milestones[i]]
    /\ UNCHANGED <<vertices, approvers, solid_entry_points, solidifier_send, tlast, tprev>>
    /\ UNCHANGED queueVars
    /\ OtherThanRequester

(***************************************************************************)
(* Traversals (bee-tangle/src/tangle.rs). A filter is a record the         *)
(* closure is built from; a traversal yields [done, collected]: the hashes *)
(* collected and whether the loop ended within MaxWalkSteps iterations.    *)
(***************************************************************************)
\* the closures given as `filter`: |tx| true, |tx| tx.bundle() == bundle, and a filter
\* rejecting the transactions of some addresses
FilterPasses(filter, transaction) ==
    CASE filter.kind = "all" -> TRUE
      [] filter.kind = "bundle" -> transaction.bundle = filter.bundle
      [] filter.kind = "except" -> transaction.address \notin filter.addresses

\* mutant: the first stored approver passing the filter is taken, whichever edge links it
RECURSIVE TrunkWalkApproversLoop_AnyEdge(_, _, _, _, _, _)
TrunkWalkApproversLoop_AnyEdge(vs, aps, filter, approvee_hash, collected, fuel) ==
    LET list == IF approvee_hash \in DOMAIN aps THEN aps[approvee_hash] ELSE <<>>
        hits == {i \in 1..Len(list) :
                    /\ list[i] \in DOMAIN vs
                    /\ FilterPasses(filter, vs[list[i]].transaction)}
        i == IF hits = {} THEN 0 ELSE CHOOSE i \in hits : \A j \in hits : i <= j
    IN  IF fuel = 0 THEN [done |-> FALSE, collected |-> collected]
        ELSE IF i = 0 THEN [done |-> TRUE, collected |-> collected]
        ELSE TrunkWalkApproversLoop_AnyEdge(vs, aps, filter, list[i],
                                            Append(collected, vs[list[i]].id), fuel - 1)

\* the while loop of trunk_walk_approvers with approvee_hash popped from `approvees`:
\* the for loop over approvers[approvee_hash] finds the first approver (index i, 0 if
\* none) that is stored, has approvee_hash as trunk and passes the filter
RECURSIVE TrunkWalkApproversLoop(_, _, _, _, _, _)
TrunkWalkApproversLoop(vs, aps, filter, approvee_hash, collected, fuel) ==
    LET list == IF approvee_hash \in DOMAIN aps THEN aps[approvee_hash] ELSE <<>>
        hits == {i \in 1..Len(list) :
                    /\ list[i] \in DOMAIN vs
                    /\ vs[list[i]].transaction.trunk = approvee_hash
                    /\ FilterPasses(filter, vs[list[i]].transaction)}
        i == IF hits = {} THEN 0 ELSE CHOOSE i \in hits : \A j \in hits : i <= j
    IN  IF fuel = 0 THEN [done |-> FALSE, collected |-> collected]
        ELSE IF i = 0 THEN [done |-> TRUE, collected |-> collected]
        ELSE TrunkWalkApproversLoop(vs, aps, filter, list[i],
                                    Append(collected, vs[list[i]].id), fuel - 1)

\* trunk_walk_approvers(start, filter) on the maps vs (vertices) and aps (approvers)
trunk_walk_approvers(vs, aps, start, filter) ==
    IF start \in DOMAIN vs /\ FilterPasses(filter, vs[start].transaction)
    THEN TrunkWalkApproversLoop(vs, aps, filter, start, <<vs[start].id>>, MaxWalkSteps)
    ELSE [done |-> TRUE, collected |-> <<>>]

\* mutant: the walk stops one ancestor early, at the ancestor whose trunk is not stored
RECURSIVE trunk_walk_approvees_StopsEarly(_, _, _, _, _)
trunk_walk_approvees_StopsEarly(vs, filter, approver_hash, collected, fuel) ==
    IF fuel = 0 THEN [done |-> FALSE, collected |-> collected]
    ELSE IF approver_hash \notin DOMAIN vs THEN [done |-> TRUE, collected |-> collected]
    ELSE IF ~FilterPasses(filter, vs[approver_hash].transaction)
            \/ vs[approver_hash].transaction.trunk \notin DOMAIN vs
         THEN [done |-> TRUE, collected |-> collected]
    ELSE trunk_walk_approvees_StopsEarly(vs, filter, vs[approver_hash].transaction.trunk,
                                         Append(collected, vs[approver_hash].id), fuel - 1)

\* trunk_walk_approvees(start, filter): the while loop with approver_hash popped from
\* `approvers`, which holds one hash at most; a hash that is not stored pushes nothing
\* and ends the loop, a transaction failing the filter breaks it
RECURSIVE trunk_walk_approvees(_, _, _, _, _)
trunk_walk_approvees(vs, filter, approver_hash, collected, fuel) ==
    IF fuel = 0 THEN [done |-> FALSE, collected |-> collected]
    ELSE IF approver_hash \notin DOMAIN vs THEN [done |-> TRUE, collected |-> collected]
    ELSE IF ~FilterPasses(filter, vs[approver_hash].transaction)
         THEN [done |-> TRUE, collected |-> collected]
    ELSE trunk_walk_approvees(vs, filter, vs[approver_hash].transaction.trunk,
                              Append(collected, vs[approver_hash].id), fuel - 1)

\* mutant: the trunk is pushed before the branch, so the branch is popped first
RECURSIVE walk_approvees_depth_first_BranchFirst(_, _, _, _, _, _, _, _)
walk_approvees_depth_first_BranchFirst(vs, seps, should_follow, non_analyzed_hashes, analyzed_hashes, mapped, missing, fuel) ==
    IF non_analyzed_hashes = <<>> THEN [done |-> TRUE, collected |-> mapped, missing |-> missing]
    ELSE IF fuel = 0 THEN [done |-> FALSE, collected |-> mapped, missing |-> missing]
    ELSE
      LET hash == non_analyzed_hashes[Len(non_analyzed_hashes)]
          popped == SubSeq(non_analyzed_hashes, 1, Len(non_analyzed_hashes) - 1)
      IN  IF hash \in analyzed_hashes
          THEN walk_approvees_depth_first_BranchFirst(
                   vs, seps, should_follow, popped, analyzed_hashes, mapped, missing,
                   fuel - 1)
          ELSE IF hash \in DOMAIN vs
          THEN walk_approvees_depth_first_BranchFirst(
                   vs, seps, should_follow,
                   IF FilterPasses(should_follow, vs[hash].transaction)
                   THEN popped \o <<vs[hash].transaction.trunk, vs[hash].transaction.branch>>
                   ELSE popped,
                   analyzed_hashes \cup {hash}, Append(mapped, hash), missing, fuel - 1)
          ELSE walk_approvees_depth_first_BranchFirst(
                   vs, seps, should_follow, popped, analyzed_hashes \cup {hash}, mapped,
                   IF hash \in seps THEN missing ELSE Append(missing, hash), fuel - 1)

\* walk_approvees_depth_first(root, map, should_follow, on_missing): the while loop on
\* non_analyzed_hashes.pop(); `mapped` lists the hashes of the transactions map was
\* called with, `missing` those on_missing was called with; should_follow is a filter
\* on the transaction of the vertex
RECURSIVE walk_approvees_depth_first(_, _, _, _, _, _, _, _)
walk_approvees_depth_first(vs, seps, should_follow, non_analyzed_hashes, analyzed_hashes, mapped, missing, fuel) ==
    IF non_analyzed_hashes = <<>> THEN [done |-> TRUE, collected |-> mapped, missing |-> missing]
    ELSE IF fuel = 0 THEN [done |-> FALSE, collected |-> mapped, missing |-> missing]
    ELSE
      LET hash == non_analyzed_hashes[Len(non_analyzed_hashes)]
          popped == SubSeq(non_analyzed_hashes, 1, Len(non_analyzed_hashes) - 1)
      IN  IF hash \in analyzed_hashes
          THEN walk_approvees_depth_first(
                   vs, seps, should_follow, popped, analyzed_hashes, mapped, missing,
                   fuel - 1)
          ELSE IF hash \in DOMAIN vs
          THEN walk_approvees_depth_first(
                   vs, seps, should_follow,
                   IF FilterPasses(should_follow, vs[hash].transaction)
                   THEN popped \o <<vs[hash].transaction.branch, vs[hash].transaction.trunk>>
                   ELSE popped,
                   analyzed_hashes \cup {hash}, Append(mapped, hash), missing, fuel - 1)
          ELSE walk_approvees_depth_first(
                   vs, seps, should_follow, popped, analyzed_hashes \cup {hash}, mapped,
                   IF hash \in seps THEN missing ELSE Append(missing, hash), fuel - 1)

\* mutant: the branch is explored before the trunk
RECURSIVE walk_approvers_post_order_dfs_BranchFirst(_, _, _, _, _, _, _)
walk_approvers_post_order_dfs_BranchFirst(vs, seps, non_analyzed_hashes, analyzed_hashes, mapped, missing, fuel) ==
    IF non_analyzed_hashes = <<>> THEN [done |-> TRUE, collected |-> mapped, missing |-> missing]
    ELSE IF fuel = 0 THEN [done |-> FALSE, collected |-> mapped, missing |-> missing]
    ELSE
      LET hash == non_analyzed_hashes[Len(non_analyzed_hashes)]
          popped == SubSeq(non_analyzed_hashes, 1, Len(non_analyzed_hashes) - 1)
      IN  IF hash \in DOMAIN vs
          THEN LET transaction == vs[hash].transaction
               IN  IF transaction.trunk \in analyzed_hashes
                      /\ transaction.branch \in analyzed_hashes
                   THEN walk_approvers_post_order_dfs_BranchFirst(
                            vs, seps, popped, analyzed_hashes \cup {hash},
                            Append(mapped, hash), missing, fuel - 1)
                   ELSE IF transaction.branch \notin analyzed_hashes
                   THEN walk_approvers_post_order_dfs_BranchFirst(
                            vs, seps, Append(non_analyzed_hashes, transaction.branch),
                            analyzed_hashes, mapped, missing, fuel - 1)
                   ELSE walk_approvers_post_order_dfs_BranchFirst(
                            vs, seps, Append(non_analyzed_hashes, transaction.trunk),
                            analyzed_hashes, mapped, missing, fuel - 1)
          ELSE walk_approvers_post_order_dfs_BranchFirst(
                   vs, seps, popped, analyzed_hashes \cup {hash}, mapped,
                   IF hash \in seps THEN missing ELSE Append(missing, hash), fuel - 1)

\* walk_approvers_post_order_dfs(root, map, should_follow, on_missing): the while loop on
\* non_analyzed_hashes.last(); `mapped` lists the hashes map was called with, `missing`
\* those on_missing was called with; should_follow is not consulted
RECURSIVE walk_approvers_post_order_dfs(_, _, _, _, _, _, _)
walk_approvers_post_order_dfs(vs, seps, non_analyzed_hashes, analyzed_hashes, mapped, missing, fuel) ==
    IF non_analyzed_hashes = <<>> THEN [done |-> TRUE, collected |-> mapped, missing |-> missing]
    ELSE IF fuel = 0 THEN [done |-> FALSE, collected |-> mapped, missing |-> missing]
    ELSE
      LET hash == non_analyzed_hashes[Len(non_analyzed_hashes)]
          popped == SubSeq(non_analyzed_hashes, 1, Len(non_analyzed_hashes) - 1)
      IN  IF hash \in DOMAIN vs
          THEN LET transaction == vs[hash].transaction
               IN  IF transaction.trunk \in analyzed_hashes
                      /\ transaction.branch \in analyzed_hashes
                   THEN walk_approvers_post_order_dfs(
                            vs, seps, popped, analyzed_hashes \cup {hash},
                            Append(mapped, hash), missing, fuel - 1)
                   ELSE IF transaction.trunk \notin analyzed_hashes
                   THEN walk_approvers_post_order_dfs(
                            vs, seps, Append(non_analyzed_hashes, transaction.trunk),
                            analyzed_hashes, mapped, missing, fuel - 1)
                   ELSE walk_approvers_post_order_dfs(
                            vs, seps, Append(non_analyzed_hashes, transaction.branch),
                            analyzed_hashes, mapped, missing, fuel - 1)
          ELSE walk_approvers_post_order_dfs(
                   vs, seps, popped, analyzed_hashes \cup {hash}, mapped,
                   IF hash \in seps THEN missing ELSE Append(missing, hash), fuel - 1)

\* mutant: the tangle always counts as synced
is_synced_Always == TRUE

is_synced == solid_milestone_index = last_milestone_index

TangleInit ==
    /\ vertices = <<>>
    /\ approvers = <<>>
    /\ milestones = <<>>
    /\ solid_entry_points = {}
    /\ solidifier_send = <<>>
    /\ tlast = NoOp
    /\ tprev = TPrev(NoOp)

(***************************************************************************)
(* WaitPriorityQueue (bee-protocol/src/util/wait_priority_queue.rs) of     *)
(* TransactionRequesterWorkerEntry (worker/requester/transaction.rs)       *)
(***************************************************************************)
\* the tasks that await pop()
Consumers == {"requester", "consumer2"}

\* mutant: the reversed order, other.1.cmp(&self.1)
EntryCmp_Reversed(a, b) == IF b.index < a.index THEN -1 ELSE IF b.index > a.index THEN 1 ELSE 0

\* Ord::cmp of two entries: self.1.cmp(&other.1), as -1 (Less), 0 (Equal), 1 (Greater)
EntryCmp(a, b) == IF a.index < b.index THEN -1 ELSE IF a.index > b.index THEN 1 ELSE 0

\* mutant: a min-heap, the least entries are returned
HeapPop_Least(h) == {e \in BagToSet(h) : \A f \in BagToSet(h) : f.index >= e.index}

\* BinaryHeap::pop: the entries it may return, the greatest ones by Ord (a tie between
\* entries that compare Equal is resolved by the heap's layout: any of them)
HeapPop(h) == {e \in BagToSet(h) : \A f \in BagToSet(h) : EntryCmp(f, e) <= 0}

BagAdd(b, e) == b (+) SetToBag({e})

BagRemove(b, e) == b (-) SetToBag({e})

QOp(op, consumer, entry, ret) ==
    [op |-> op, consumer |-> consumer, entry |-> entry, ret |-> ret,
     heap_before |-> heap, wakers_before |-> wakers, cstate_before |-> cstate,
     woken_for_before |-> wokenFor]

\* mutant: the newest waker is woken (pop_back)
QueueInsert_WakeNewest(entry) ==
    /\ heap' = heap (+) SetToBag({entry})
    /\ IF wakers # <<>>
       THEN /\ wakers' = SubSeq(wakers, 1, Len(wakers) - 1)
            /\ cstate' = [cstate EXCEPT ![wakers[Len(wakers)]] =
                              IF @ = "pending" THEN "woken" ELSE @]
       ELSE UNCHANGED <<wakers, cstate>>

\* WaitPriorityQueue::insert(entry): push onto the heap, then wake the oldest waker if any
QueueInsert(entry) ==
    /\ heap' = BagAdd(heap, entry)
    /\ IF wakers # <<>>
       THEN /\ wakers' = Tail(wakers)
            /\ cstate' = [cstate EXCEPT ![Head(wakers)] = IF @ = "pending" THEN "woken" ELSE @]
       ELSE UNCHANGED <<wakers, cstate>>

\* WaitFut::poll by task c with outcome r: <<entry>> for Poll::Ready(entry), <<>> for
\* Poll::Pending after pushing the task's waker at the back
WaitFutPoll(c, r) ==
    IF heap # EmptyBag
    THEN /\ r \in {<<e>> : e \in HeapPop(heap)}
         /\ heap' = BagRemove(heap, r[1])
         /\ cstate' = [cstate EXCEPT ![c] = "idle"]
         /\ UNCHANGED wakers
    ELSE /\ r = <<>>
         /\ Len(wakers) < MaxWakers
         /\ wakers' = Append(wakers, c)
         /\ cstate' = [cstate EXCEPT ![c] = "pending"]
         /\ UNCHANGED heap

\* the outcomes a poll can have
PollOutcomes == {<<>>} \cup {<<e>> : e \in BagToSet(heap)}

\* a producer inserts an entry, recorded in the history
Insert(entry) ==
    /\ QueueInsert(entry)
    /\ wokenFor' = IF wakers # <<>> /\ cstate[Head(wakers)] = "pending"
                   THEN [wokenFor EXCEPT ![Head(wakers)] = <<entry>>]
                   ELSE wokenFor
    /\ qlast' = QOp("insert", "none", entry, "none")
    /\ popLog' = <<>>
    /\ UNCHANGED tangleVars
    /\ OtherThanRequester

\* a consumer task polls its pop() future (first poll, poll after a wake, or a repeated
\* poll while pending), recorded in the history
Poll(c) ==
    /\ \E r \in PollOutcomes :
          /\ WaitFutPoll(c, r)
          /\ qlast' = IF r = <<>> THEN QOp("poll", c, NoEntry, "pending")
                                  ELSE QOp("poll", c, r[1], "ready")
          /\ popLog' = IF r = <<>> THEN popLog ELSE Append(popLog, r[1])
    /\ wokenFor' = [wokenFor EXCEPT ![c] = <<>>]
    /\ UNCHANGED tangleVars
    /\ OtherThanRequester

\* a consumer task drops its pop() future before it completed (the other branch of its
\* select! won); the wakers it registered stay in the queue
Abandon(c) ==
    /\ cstate[c] \in {"pending", "woken"}
    /\ cstate' = [cstate EXCEPT ![c] = "idle"]
    /\ wokenFor' = [wokenFor EXCEPT ![c] = <<>>]
    /\ qlast' = QOp("abandon", c, NoEntry, "none")
    /\ UNCHANGED <<heap, wakers, popLog>>
    /\ UNCHANGED tangleVars
    /\ OtherThanRequester

QueueInit ==
    /\ heap = EmptyBag
    /\ wakers = <<>>
    /\ cstate = [c \in Consumers |-> "idle"]
    /\ wokenFor = [c \in Consumers |-> <<>>]
    /\ qlast = [op |-> "init", consumer |-> "none", entry |-> NoEntry, ret |-> "none",
                heap_before |-> EmptyBag, wakers_before |-> <<>>,
                cstate_before |-> [c \in Consumers |-> "idle"],
                woken_for_before |-> [c \in Consumers |-> <<>>]]
    /\ popLog = <<>>

(***************************************************************************)
(* Solid entry points (bee-tangle/src/tangle.rs)                           *)
(***************************************************************************)
is_solid_entry_point(hash) == hash \in solid_entry_points

add_solid_entry_point(hash) ==
    /\ solid_entry_points' = solid_entry_points \cup {hash}
    /\ UNCHANGED <<vertices, approvers, milestones, solidifier_send, tlast, tprev>>
    /\ UNCHANGED queueVars
    /\ OtherThanRequester

remove_solid_entry_point(hash) ==
    /\ solid_entry_points' = solid_entry_points \ {hash}
    /\ UNCHANGED <<vertices, approvers, milestones, solidifier_send, tlast, tprev>>
    /\ UNCHANGED queueVars
    /\ OtherThanRequester

(***************************************************************************)
(* Peers and sender contexts (the protocol layer; bee-protocol/src/worker/ *)
(* sender.rs for the contexts' channels)                                   *)
(***************************************************************************)
\* a peer completes its handshake
Handshake(epid) ==
    /\ epid \notin handshaked_peers
    /\ handshaked_peers' = handshaked_peers \cup {epid}
    /\ rlast' = NoRun
    /\ UNCHANGED <<requested, contexts, transaction_request>>
    /\ UNCHANGED <<tangleVars, queueVars, restVars>>

\* the protocol layer installs the SenderContext of a peer
InstallContext(epid) ==
    /\ epid \notin contexts
    /\ contexts' = contexts \cup {epid}
    /\ transaction_request' = [transaction_request EXCEPT ![epid] = <<>>]
    /\ sender_channels' = [sender_channels EXCEPT ![epid] = [kind \in DOMAIN @ |-> <<>>]]
    /\ rlast' = NoRun
    /\ closed' = {c \in closed : c[1] # epid}
    /\ UNCHANGED <<requested, handshaked_peers>>
    /\ UNCHANGED <<tangleVars, queueVars, ingestVars, network, enqueued, send_failed, codec, walked, teardown, workers, calls>>

\* a peer disconnects: it leaves handshaked_peers and its context is removed
Disconnect(epid) ==
    /\ epid \in handshaked_peers \cup contexts
    /\ handshaked_peers' = handshaked_peers \ {epid}
    /\ contexts' = contexts \ {epid}
    /\ transaction_request' = [transaction_request EXCEPT ![epid] = <<>>]
    /\ sender_channels' = [sender_channels EXCEPT ![epid] = [kind \in DOMAIN @ |-> <<>>]]
    /\ rlast' = NoRun
    /\ closed' = {c \in closed : c[1] # epid}
    /\ UNCHANGED requested
    /\ UNCHANGED <<tangleVars, queueVars, ingestVars, network, enqueued, send_failed, codec, walked, teardown, workers, calls>>

\* TransactionRequest::new(hash bytes)
TransactionRequestNew(bytes) == [kind |-> "TransactionRequest", hash |-> bytes]

\* SenderWorker::<TransactionRequest>::send(epid, message): the channels afterwards; a
\* peer without context is ignored, and on a channel without receiver the send fails:
\* the error is logged and the message dropped
SenderWorkerSend(epid, message) ==
    IF epid \in contexts /\ <<epid, "TransactionRequest">> \notin closed
    THEN [transaction_request EXCEPT ![epid] = Append(@, message)]
    ELSE transaction_request

(***************************************************************************)
(* Message: headers and bodies on the wire (message/message.rs,            *)
(* message/transaction_broadcast.rs)                                       *)
(***************************************************************************)
HEADER_TYPE_SIZE == 1

HEADER_SIZE == 3

TRANSACTION_BROADCAST_VARIABLE_MIN_SIZE == 292

TRANSACTION_BROADCAST_VARIABLE_MAX_SIZE == 1604

\* n.to_be_bytes() of an unsigned integer of `width` bytes
ToBe(n, width) == [i \in 1..width |-> (n \div (256 ^ (width - i))) % 256]

\* uN::from_be_bytes(bytes)
RECURSIVE FromBe(_)
FromBe(bytes) ==
    IF bytes = <<>> THEN 0
    ELSE FromBe(SubSeq(bytes, 1, Len(bytes) - 1)) * 256 + bytes[Len(bytes)]

\* per kind: Message::ID, the least and the greatest body size, and the number of u32
\* fields of the body (0: the body is one blob of bytes). The message of a blob kind is
\* its blob, the message of another kind is the tuple of its fields.
MessageTable ==
    [MilestoneRequest |-> [ID |-> 2, min |-> 4, max |-> 4, fields |-> 1],
     TransactionRequest |-> [ID |-> 3, min |-> 49, max |-> 49, fields |-> 0],
     TransactionBroadcast |-> [ID |-> 4, min |-> TRANSACTION_BROADCAST_VARIABLE_MIN_SIZE,
                               max |-> TRANSACTION_BROADCAST_VARIABLE_MAX_SIZE,
                               fields |-> 0],
     Heartbeat |-> [ID |-> 6, min |-> 8, max |-> 8, fields |-> 2]]

\* Message::size_range(): min..(max + 1), the upper end excluded
size_range(kind) == {n \in MessageTable[kind].min..(MessageTable[kind].max + 1) :
                        n < MessageTable[kind].max + 1}

\* Message::size(&self) (the name size is the tangle's)
message_size(kind, message) ==
    IF MessageTable[kind].fields = 0 THEN Len(message) ELSE MessageTable[kind].min

\* Message::to_bytes(self, bytes): the body written
RECURSIVE to_bytes(_, _)
to_bytes(kind, message) ==
    IF MessageTable[kind].fields = 0 \/ message = <<>> THEN message
    ELSE to_bytes(kind, SubSeq(message, 1, Len(message) - 1))
             \o ToBe(message[Len(message)], 4)

\* mutant: the upper end of the size range is taken as excluded twice
from_bytes_ExclusiveMax(kind, bytes) ==
    IF Len(bytes) \notin size_range(kind) \ {MessageTable[kind].max}
    THEN [ok |-> FALSE, error |-> <<"InvalidPayloadLength", Len(bytes)>>]
    ELSE [ok |-> TRUE,
          message |-> IF MessageTable[kind].fields = 0 THEN bytes
                      ELSE [i \in 1..MessageTable[kind].fields |->
                               FromBe(SubSeq(bytes, 4 * i - 3, 4 * i))]]

\* Message::from_bytes(bytes)
from_bytes(kind, bytes) ==
    IF Len(bytes) \notin size_range(kind)
    THEN [ok |-> FALSE, error |-> <<"InvalidPayloadLength", Len(bytes)>>]
    ELSE [ok |-> TRUE,
          message |-> IF MessageTable[kind].fields = 0 THEN bytes
                      ELSE [i \in 1..MessageTable[kind].fields |->
                               FromBe(SubSeq(bytes, 4 * i - 3, 4 * i))]]

\* Message::from_full_bytes(header, payload)
from_full_bytes(kind, header, payload) ==
    LET payload_length == FromBe(SubSeq(header, HEADER_TYPE_SIZE + 1, HEADER_SIZE))
    IN  IF payload_length # Len(payload)
        THEN [ok |-> FALSE,
              error |-> <<"InvalidAdvertisedLength", payload_length, Len(payload)>>]
        ELSE from_bytes(kind, payload)

\* mutant: the length is written least significant byte first
into_full_bytes_LittleEndian(kind, message) ==
    LET le == ToBe(message_size(kind, message) % 65536, HEADER_SIZE - HEADER_TYPE_SIZE)
    IN  [i \in 1..HEADER_SIZE |->
            IF i <= HEADER_TYPE_SIZE THEN MessageTable[kind].ID
            ELSE le[HEADER_SIZE + 1 - i]] \o to_bytes(kind, message)

\* Message::into_full_bytes(self): the type, the size as u16 in big-endian, the body
into_full_bytes(kind, message) ==
    LET be == ToBe(message_size(kind, message) % 65536, HEADER_SIZE - HEADER_TYPE_SIZE)
    IN  [i \in 1..HEADER_SIZE |->
            IF i <= HEADER_TYPE_SIZE THEN MessageTable[kind].ID
            ELSE be[i - HEADER_TYPE_SIZE]] \o to_bytes(kind, message)

\* the messages offered to the codec: blobs whose sizes lie around the limits of the
\* size range, filled with zeros (fill 0) or with 0, 1, 2, ... (fill 1); fields that are
\* small, that need several bytes and that are the greatest number TLC computes with
CodecMessages(kind) ==
    LET t == MessageTable[kind]
        lens == {n \in (t.min - MaxOffset)..(t.max + MaxOffset) :
                    (n <= t.min + MaxOffset \/ n >= t.max - MaxOffset) /\ n >= 0}
        u32s == {0, 1, 258, 16909060, 2147483647}
    IN  IF t.fields = 0
        THEN {[i \in 1..n |-> ((i - 1) * fill) % 256] : n \in lens, fill \in {0, 1}}
        ELSE [1..t.fields -> u32s]

\* a message is constructed
CodecNew(kind, message) ==
    codec = [stage |-> "message", kind |-> kind, message |-> message, bytes |-> <<>>,
             altered |-> FALSE, op |-> "new", result |-> [ok |-> FALSE, error |-> <<>>]]

\* bytes = message.into_full_bytes()
IntoFullBytes ==
    /\ codec.stage = "message"
    /\ codec' = [codec EXCEPT !.stage = "bytes",
                              !.bytes = into_full_bytes(codec.kind, codec.message)]
    /\ UNCHANGED <<tangleVars, queueVars, protocolVars, ingestVars, senderVars, walked, teardown, workers, calls>>

\* the transport delivers other bytes: the advertised length changed by d, the last
\* `cut` bytes of the payload missing
Alter(d, cut) ==
    LET header == SubSeq(codec.bytes, 1, HEADER_SIZE)
        advertised == FromBe(SubSeq(header, HEADER_TYPE_SIZE + 1, HEADER_SIZE)) + d
    IN  /\ codec.stage = "bytes"
        /\ ~codec.altered
        /\ d # 0 \/ cut # 0
        /\ advertised \in 0..65535
        /\ Len(codec.bytes) - cut >= HEADER_SIZE
        /\ codec' = [codec EXCEPT
                        !.altered = TRUE,
                        !.bytes = SubSeq(header, 1, HEADER_TYPE_SIZE)
                                    \o ToBe(advertised, HEADER_SIZE - HEADER_TYPE_SIZE)
                                    \o SubSeq(codec.bytes, HEADER_SIZE + 1,
                                              Len(codec.bytes) - cut)]
        /\ UNCHANGED <<tangleVars, queueVars, protocolVars, ingestVars, senderVars, walked, teardown, workers, calls>>

\* K::from_full_bytes(&bytes[0..HEADER_SIZE], &bytes[HEADER_SIZE..])
FromFullBytes ==
    /\ codec.stage = "bytes"
    /\ codec' = [codec EXCEPT
                    !.stage = "decoded", !.op = "from_full_bytes",
                    !.result = from_full_bytes(codec.kind,
                                   SubSeq(codec.bytes, 1, HEADER_SIZE),
                                   SubSeq(codec.bytes, HEADER_SIZE + 1, Len(codec.bytes)))]
    /\ UNCHANGED <<tangleVars, queueVars, protocolVars, ingestVars, senderVars, walked, teardown, workers, calls>>

\* K::from_bytes(&bytes[HEADER_SIZE..])
FromBytes ==
    /\ codec.stage = "bytes"
    /\ codec' = [codec EXCEPT
                    !.stage = "decoded", !.op = "from_bytes",
                    !.result = from_bytes(codec.kind,
                                   SubSeq(codec.bytes, HEADER_SIZE + 1, Len(codec.bytes)))]
    /\ UNCHANGED <<tangleVars, queueVars, protocolVars, ingestVars, senderVars, walked, teardown, workers, calls>>

(***************************************************************************)
(* SenderWorker<M> for the four message kinds (worker/sender.rs)           *)
(***************************************************************************)
\* the kinds implement_sender_worker! is instantiated for
Kinds == {"MilestoneRequest", "TransactionBroadcast", "TransactionRequest", "Heartbeat"}

\* the events queued on context.$sender.0 of the peer, oldest first
Events(epid, kind) ==
    IF kind = "TransactionRequest" THEN transaction_request[epid]
    ELSE sender_channels[epid][kind]

\* the channels of one kind become `queues`, a queue per peer
ChannelsBecome(kind, queues) ==
    IF kind = "TransactionRequest"
    THEN /\ transaction_request' = queues
         /\ UNCHANGED sender_channels
    ELSE /\ sender_channels' =
                [epid \in Peers |-> [sender_channels[epid] EXCEPT ![kind] = queues[epid]]]
         /\ UNCHANGED transaction_request

\* SenderWorker::<kind>::send(epid, message): the event is appended to the channel of
\* the peer's context; without a context nothing is done, and when the channel has lost
\* its receiver the send fails, which is logged. A message is known by its kind and by
\* `seq`, the number of the event in the order of the sends.
SenderSend(epid, kind) ==
    /\ ChannelsBecome(kind,
           [e \in Peers |->
               IF e = epid /\ e \in contexts /\ <<e, kind>> \notin closed
               THEN Append(Events(e, kind),
                           [kind |-> kind, seq |-> enqueued + 1])
               ELSE Events(e, kind)])
    /\ enqueued' = IF epid \in contexts THEN enqueued + 1 ELSE enqueued
    /\ send_failed' = IF epid \in contexts /\ <<epid, kind>> \in closed
                      THEN send_failed \cup {[epid |-> epid, kind |-> kind,
                                              seq |-> enqueued + 1]}
                      ELSE send_failed
    /\ rlast' = NoRun
    /\ UNCHANGED <<requested, handshaked_peers, contexts, network, closed>>
    /\ UNCHANGED <<tangleVars, queueVars, ingestVars, codec, walked, teardown, workers, calls>>

\* mutant: the loop over the contexts is left at the first send that fails
SenderBroadcast_StopsAtFirstError(kind, order) ==
    /\ ChannelsBecome(kind,
           [e \in Peers |->
               IF /\ e \in contexts
                  /\ \A c \in contexts : order[c] <= order[e] => <<c, kind>> \notin closed
               THEN Append(Events(e, kind),
                           [kind |-> kind, seq |-> enqueued + order[e]])
               ELSE Events(e, kind)])
    /\ enqueued' = enqueued + Cardinality(contexts)
    /\ send_failed' = send_failed \cup
           {[epid |-> e, kind |-> kind, seq |-> enqueued + order[e]] :
               e \in {c \in contexts :
                         /\ <<c, kind>> \in closed
                         /\ \A d \in contexts :
                                order[d] < order[c] => <<d, kind>> \notin closed}}
    /\ rlast' = NoRun
    /\ UNCHANGED <<requested, handshaked_peers, contexts, network, closed>>
    /\ UNCHANGED <<tangleVars, queueVars, ingestVars, codec, walked, teardown, workers, calls>>

\* SenderWorker::<kind>::broadcast(message): a clone of the message is sent on the
\* channel of every context, one context after the other in the order `order`, a
\* bijection from the contexts onto 1..n; a send that fails because the channel has lost
\* its receiver is logged and the loop goes on with the next context
SenderBroadcast(kind, order) ==
    /\ ChannelsBecome(kind,
           [e \in Peers |->
               IF e \in contexts /\ <<e, kind>> \notin closed
               THEN Append(Events(e, kind),
                           [kind |-> kind, seq |-> enqueued + order[e]])
               ELSE Events(e, kind)])
    /\ enqueued' = enqueued + Cardinality(contexts)
    /\ send_failed' = send_failed \cup
           {[epid |-> e, kind |-> kind, seq |-> enqueued + order[e]] :
               e \in {c \in contexts : <<c, kind>> \in closed}}
    /\ rlast' = NoRun
    /\ UNCHANGED <<requested, handshaked_peers, contexts, network, closed>>
    /\ UNCHANGED <<tangleVars, queueVars, ingestVars, codec, walked, teardown, workers, calls>>

\* mutant: the task takes the newest event of the channel
EventsNext_Newest(queue) == Len(queue)

\* events.next(): the position of the event the task receives, the oldest one
EventsNext(queue) == 1

\* one turn of the loop of SenderWorker::<kind>::run for the peer: the next event is
\* received and handed to the network as SendBytes; when the network refuses it (ok is
\* false) the message is dropped with a warning
SenderRun(epid, kind, ok) ==
    LET queue == Events(epid, kind)
        k == EventsNext(queue)
    IN  /\ epid \in contexts
        /\ queue # <<>>
        /\ ChannelsBecome(kind,
               [e \in Peers |->
                   IF e = epid
                   THEN SubSeq(queue, 1, k - 1) \o SubSeq(queue, k + 1, Len(queue))
                   ELSE Events(e, kind)])
        /\ network' = IF ok
                      THEN Append(network, [epid |-> epid, kind |-> queue[k].kind,
                                            seq |-> queue[k].seq])
                      ELSE network
        /\ rlast' = NoRun
        /\ UNCHANGED <<requested, handshaked_peers, contexts, enqueued, closed, send_failed>>
        /\ UNCHANGED <<tangleVars, queueVars, ingestVars, codec, walked, teardown, workers, calls>>

\* the shutdown branch of SenderWorker::<kind>::run for the peer: the loop is left and the
\* receiver is dropped with the events still queued, while the context stays in the map
SenderShutdown(epid, kind) ==
    /\ epid \in contexts
    /\ <<epid, kind>> \notin closed
    /\ closed' = closed \cup {<<epid, kind>>}
    /\ ChannelsBecome(kind, [e \in Peers |-> IF e = epid THEN <<>> ELSE Events(e, kind)])
    /\ rlast' = NoRun
    /\ UNCHANGED <<requested, handshaked_peers, contexts, network, enqueued, send_failed>>
    /\ UNCHANGED <<tangleVars, queueVars, ingestVars, codec, walked, teardown, workers, calls>>

\* no context is installed yet and nothing was handed to the network
SenderInit ==
    /\ sender_channels =
           [epid \in Peers |-> [kind \in Kinds \ {"TransactionRequest"} |-> <<>>]]
    /\ network = <<>>
    /\ enqueued = 0
    /\ closed = {}
    /\ send_failed = {}

(***************************************************************************)
(* TransactionRequesterWorker (worker/requester/transaction.rs)            *)
(***************************************************************************)
\* mutant: the hash is recorded before the check for handshaked peers
RequestedAfter_RecordFirst(hash, index) == (hash :> index) @@ requested

\* the requested-map after process_request(hash, index): nothing is recorded when no
\* peer is handshaked, else requested.insert(hash, index)
RequestedAfter(hash, index) ==
    IF handshaked_peers = {} THEN requested ELSE (hash :> index) @@ requested

ROp(op, entry) ==
    [op |-> op, entry |-> entry, requested_before |-> requested,
     peers_before |-> handshaked_peers, contexts_before |-> contexts,
     channels_before |-> transaction_request]

\* mutant: without handshaked peers the request is recorded and not sent
process_request_KeepsDropped(hash, index) ==
    /\ requested' = (hash :> index) @@ requested
    /\ IF handshaked_peers = {}
       THEN UNCHANGED transaction_request
       ELSE \E epid \in handshaked_peers :
                transaction_request' =
                    SenderWorkerSend(epid, TransactionRequestNew(HashAsT5B1Bytes(hash)))
    /\ rlast' = ROp("process", Entry(hash, index))

\* process_request(hash, index)
process_request(hash, index) ==
    /\ requested' = RequestedAfter(hash, index)
    /\ IF handshaked_peers = {}
       THEN UNCHANGED transaction_request
       ELSE \E epid \in handshaked_peers :
                transaction_request' =
                    SenderWorkerSend(epid, TransactionRequestNew(HashAsT5B1Bytes(hash)))
    /\ rlast' = ROp("process", Entry(hash, index))

\* mutant: a popped entry is processed unless its hash is stored, solid entry point or not
RequesterRun_IgnoresEntryPoints ==
    /\ cstate["requester"] \in {"idle", "woken"}
    /\ \E r \in PollOutcomes :
          /\ WaitFutPoll("requester", r)
          /\ IF r = <<>>
             THEN /\ rlast' = ROp("pending", NoEntry)
                  /\ UNCHANGED <<requested, transaction_request>>
             ELSE IF ~contains_transaction(r[1].hash)
                  THEN process_request(r[1].hash, r[1].index)
                  ELSE /\ rlast' = ROp("discard", r[1])
                       /\ UNCHANGED <<requested, transaction_request>>
    /\ UNCHANGED <<handshaked_peers, contexts>>
    /\ UNCHANGED <<tangleVars, queueHistory, restVars>>

\* one turn of the loop of run(): the task, at its first poll or woken by the queue, polls
\* the pop future; a popped entry is processed unless its hash is a solid entry point or
\* stored
RequesterRun ==
    /\ cstate["requester"] \in {"idle", "woken"}
    /\ \E r \in PollOutcomes :
          /\ WaitFutPoll("requester", r)
          /\ IF r = <<>>
             THEN /\ rlast' = ROp("pending", NoEntry)
                  /\ UNCHANGED <<requested, transaction_request>>
             ELSE IF ~is_solid_entry_point(r[1].hash) /\ ~contains_transaction(r[1].hash)
                  THEN process_request(r[1].hash, r[1].index)
                  ELSE /\ rlast' = ROp("discard", r[1])
                       /\ UNCHANGED <<requested, transaction_request>>
    /\ UNCHANGED <<handshaked_peers, contexts>>
    /\ UNCHANGED <<tangleVars, queueHistory, restVars>>

\* the requester, having popped the entry, checks its hash and processes the request
RequesterProcess(entry) ==
    /\ ~is_solid_entry_point(entry.hash)
    /\ ~contains_transaction(entry.hash)
    /\ process_request(entry.hash, entry.index)
    /\ UNCHANGED <<handshaked_peers, contexts>>
    /\ UNCHANGED <<tangleVars, queueVars, restVars>>

\* the turn of the requester for a popped entry, step by step: the test of run() that the
\* hash is neither a solid entry point nor stored, and then, as a step of its own,
\* process_request, which records and sends the request with no further look at the store
RequesterStep(entry) ==
    /\ \/ /\ calls["requester"].pc = "idle"
          /\ ~is_solid_entry_point(entry.hash)
          /\ ~contains_transaction(entry.hash)
          /\ calls' = [calls EXCEPT !["requester"] =
                          [pc |-> "process_request", entry |-> entry]]
          /\ rlast' = NoRun
          /\ UNCHANGED <<requested, transaction_request>>
       \/ /\ calls["requester"].pc = "process_request"
          /\ calls["requester"].entry = entry
          /\ process_request(entry.hash, entry.index)
          /\ calls' = [calls EXCEPT !["requester"] = [pc |-> "idle"]]
    /\ UNCHANGED <<handshaked_peers, contexts>>
    /\ UNCHANGED <<tangleVars, queueVars, ingestVars, senderVars, codec, walked, teardown, workers>>

\* a producer puts an entry into the requester queue
Request(entry) ==
    /\ QueueInsert(entry)
    /\ UNCHANGED <<tangleVars, queueHistory>>
    /\ OtherThanRequester

\* a transaction that approves itself is stored under `hash`
Store(hash) ==
    /\ insert_transaction([trunk |-> hash, branch |-> hash], hash)
    /\ UNCHANGED <<tlast, tprev, queueVars>>
    /\ OtherThanRequester

(***************************************************************************)
(* TinyHashCache (worker/transaction/tiny_hash_cache.rs): a bounded FIFO   *)
(* queue of blobs with a companion set                                     *)
(***************************************************************************)
\* mutant: a full cache grows, nothing leaves the queue
CacheQueueAfter_NoEvict(blob) ==
    IF blob \in cache_set THEN cache_queue ELSE Append(cache_queue, blob)

\* the queue after insert(blob): unchanged for a present blob; else the head is dropped
\* when the cache is full and the blob is appended
CacheQueueAfter(blob) ==
    IF blob \in cache_set THEN cache_queue
    ELSE IF Len(cache_queue) >= cache_capacity
         THEN Append(Tail(cache_queue), blob)
         ELSE Append(cache_queue, blob)

\* the set after insert(blob): unchanged for a present blob; else the evicted head is
\* removed and the blob is added
CacheSetAfter(blob) ==
    IF blob \in cache_set THEN cache_set
    ELSE IF Len(cache_queue) >= cache_capacity
         THEN (cache_set \ {Head(cache_queue)}) \cup {blob}
         ELSE cache_set \cup {blob}

\* mutant: a present blob is reported as inserted
CacheInsertReturn_Always(blob) == TRUE

\* the flag returned by insert(blob): true iff the blob was not present
CacheInsertReturn(blob) == blob \notin cache_set

\* TinyHashCache::insert(blob): its effect on the cache
CacheInsertBlob(blob) ==
    /\ cache_queue' = CacheQueueAfter(blob)
    /\ cache_set' = CacheSetAfter(blob)
    /\ UNCHANGED cache_capacity

\* a call of cache.insert(blob) on its own, with the flag it returns logged
CacheInsert(blob) ==
    /\ CacheInsertBlob(blob)
    /\ cache_log' = Append(cache_log, [blob |-> blob, ret |-> CacheInsertReturn(blob)])
    /\ UNCHANGED <<solid_milestone_index, last_milestone_index,
                   milestone_validator_worker_tx, broadcast_calls, solidification_calls,
                   insert_calls, ilast>>
    /\ UNCHANGED <<tangleVars, queueVars, protocolVars, senderVars, codec, walked, teardown, workers, calls>>

\* TinyHashCache::new(capacity)
CacheNew(capacity) ==
    /\ cache_queue = <<>>
    /\ cache_set = {}
    /\ cache_capacity = capacity
    /\ cache_log = <<>>

(***************************************************************************)
(* TransactionWorker, the ingest worker (worker/transaction/transaction.rs)*)
(***************************************************************************)
\* Protocol::get().config.mwm
Mwm == 1

\* Protocol::get().config.coordinator.public_key and config.workers.null_address
CoordinatorAddress == "coordinator"

NullAddress == "null"

TailHash == MkHash(1)

HeadHash == MkHash(2)

\* the TransactionBroadcast payloads offered to the worker. A payload is the blob `id`
\* and what decoding it yields: whether the T5B1 packing is well formed, whether a
\* transaction parses from the trits, the transaction, the digest of the trits and its
\* weight. "tail" (index 0) and "head" (index 1) are a two-transaction bundle of the
\* coordinator, the tail's trunk being the head; "tail2" is another blob that decodes to
\* the tail; "plain" is of another address; "light" has too light a hash; "malformed"
\* has a malformed packing and "unparsable" yields no transaction.
Payloads ==
    LET Tx(trunk, branch, address, bundle, index) ==
            [trunk |-> trunk, branch |-> branch, address |-> address, bundle |-> bundle,
             index |-> index]
        P(id, packing, parse, transaction, hash, weight) ==
            [id |-> id, packing |-> packing, parse |-> parse,
             transaction |-> transaction, hash |-> hash, weight |-> weight]
        External == MkHash(5)
        Bundle == MkHash(6)
        TailTx == Tx(HeadHash, External, CoordinatorAddress, Bundle, 0)
        HeadTx == Tx(External, External, CoordinatorAddress, Bundle, 1)
    IN  {P("tail", TRUE, TRUE, TailTx, TailHash, Mwm),
         P("head", TRUE, TRUE, HeadTx, HeadHash, Mwm),
         P("tail2", TRUE, TRUE, TailTx, TailHash, Mwm),
         P("plain", TRUE, TRUE, Tx(External, HeadHash, "other", MkHash(3), 0),
           MkHash(3), Mwm),
         P("light", TRUE, TRUE, Tx(External, External, CoordinatorAddress, MkHash(4), 0),
           MkHash(4), Mwm - 1),
         P("malformed", FALSE, FALSE, TailTx, TailHash, Mwm),
         P("unparsable", TRUE, FALSE, TailTx, TailHash, Mwm)}

is_tail(transaction) == transaction.index = 0

\* mutant: the weight of the hash is not looked at
IngestOutcome_NoWeightGate(payload) ==
    IF ~CacheInsertReturn(payload.id) THEN "cached"
    ELSE IF ~payload.packing THEN "malformed"
    ELSE IF ~payload.parse THEN "unparsable"
    ELSE IF InsertReturn(payload.hash) = "none" THEN "present"
    ELSE "stored"

\* mutant: the result of insert_transaction is not looked at
IngestOutcome_PresentIsStored(payload) ==
    IF ~CacheInsertReturn(payload.id) THEN "cached"
    ELSE IF ~payload.packing THEN "malformed"
    ELSE IF ~payload.parse THEN "unparsable"
    ELSE IF payload.weight < Mwm THEN "light"
    ELSE "stored"

\* mutant: the cache is not consulted
IngestOutcome_NoCache(payload) ==
    IF ~payload.packing THEN "malformed"
    ELSE IF ~payload.parse THEN "unparsable"
    ELSE IF payload.weight < Mwm THEN "light"
    ELSE IF InsertReturn(payload.hash) = "none" THEN "present"
    ELSE "stored"

\* how far process_transaction_brodcast gets with the payload in the current state
IngestOutcome(payload) ==
    IF ~CacheInsertReturn(payload.id) THEN "cached"
    ELSE IF ~payload.packing THEN "malformed"
    ELSE IF ~payload.parse THEN "unparsable"
    ELSE IF payload.weight < Mwm THEN "light"
    ELSE IF InsertReturn(payload.hash) = "none" THEN "present"
    ELSE "stored"

\* mutant: only a transaction that is itself a tail yields one
IngestTail_NoWalk(payload, vs, aps) ==
    IF is_tail(payload.transaction) THEN <<payload.hash>> ELSE <<>>

\* the tail of the bundle of the stored transaction, <<>> if none is found; the walk
\* runs on the store as it is after the insert
IngestTail(payload, vs, aps) ==
    IF is_tail(payload.transaction) THEN <<payload.hash>>
    ELSE LET chain == trunk_walk_approvers(vs, aps, payload.hash,
                          [kind |-> "bundle", bundle |-> payload.transaction.bundle]).collected
         IN  IF chain # <<>> /\ is_tail(vs[chain[Len(chain)]].transaction)
             THEN <<chain[Len(chain)]>>
             ELSE <<>>

\* history of the ingest worker before any event: a record of how far the last event
\* got, its payload, the number of the event, and the same of the event before
NoEvent == [op |-> "none", payload |-> "none", seq |-> 0,
            prev_op |-> "none", prev_payload |-> "none"]

\* mutant: a requested transaction is re-broadcast as well
IngestStored_AlwaysRebroadcast(from, payload) ==
    LET transaction == payload.transaction
        hash == payload.hash
        first == IF ~is_synced /\ requested = <<>>
                 THEN Append(solidification_calls, <<"milestone">>)
                 ELSE solidification_calls
    IN  /\ solidification_calls' =
               IF hash \in DOMAIN requested
               THEN Append(first, <<"transaction", hash, requested[hash]>>)
               ELSE first
        /\ requested' = [h \in DOMAIN requested \ {hash} |-> requested[h]]
        /\ broadcast_calls' =
               Append(broadcast_calls, [from |-> from, payload |-> payload.id])
        /\ milestone_validator_worker_tx' =
               IF transaction.address \in {CoordinatorAddress, NullAddress}
               THEN milestone_validator_worker_tx \o IngestTail(payload, vertices', approvers')
               ELSE milestone_validator_worker_tx

\* the steps after a successful store: the solidification triggers, the re-broadcast and
\* the milestone candidacy
IngestStored(from, payload) ==
    LET transaction == payload.transaction
        hash == payload.hash
        first == IF ~is_synced /\ requested = <<>>
                 THEN Append(solidification_calls, <<"milestone">>)
                 ELSE solidification_calls
    IN  /\ solidification_calls' =
               IF hash \in DOMAIN requested
               THEN Append(first, <<"transaction", hash, requested[hash]>>)
               ELSE first
        /\ requested' = [h \in DOMAIN requested \ {hash} |-> requested[h]]
        /\ broadcast_calls' =
               IF hash \in DOMAIN requested
               THEN broadcast_calls
               ELSE Append(broadcast_calls, [from |-> from, payload |-> payload.id])
        /\ milestone_validator_worker_tx' =
               IF transaction.address \in {CoordinatorAddress, NullAddress}
               THEN milestone_validator_worker_tx \o IngestTail(payload, vertices', approvers')
               ELSE milestone_validator_worker_tx

\* process_transaction_brodcast(from, transaction_broadcast, milestone_validator_worker_tx)
process_transaction_brodcast(from, payload) ==
    LET outcome == IngestOutcome(payload)
    IN  /\ ilast' = [op |-> outcome, payload |-> payload.id, seq |-> ilast.seq + 1,
                      prev_op |-> ilast.op, prev_payload |-> ilast.payload]
        /\ IF outcome = "cached"
           THEN UNCHANGED <<cache_queue, cache_set, cache_capacity>>
           ELSE CacheInsertBlob(payload.id)
        /\ UNCHANGED cache_log
        /\ IF outcome \in {"present", "stored"}
           THEN /\ insert_transaction(payload.transaction, payload.hash)
                /\ insert_calls' = insert_calls + 1
           ELSE UNCHANGED <<vertices, approvers, milestones, solid_entry_points,
                            solidifier_send, insert_calls>>
        /\ IF outcome = "stored"
           THEN IngestStored(from, payload)
           ELSE UNCHANGED <<requested, solidification_calls, broadcast_calls,
                            milestone_validator_worker_tx>>
        /\ UNCHANGED <<tlast, tprev, queueVars, senderVars, codec, walked, teardown, workers, calls>>
        /\ UNCHANGED <<solid_milestone_index, last_milestone_index>>
        /\ UNCHANGED <<handshaked_peers, contexts, transaction_request>>
        /\ rlast' = NoRun

update_last_milestone_index(new_index) ==
    /\ last_milestone_index' = new_index
    /\ UNCHANGED <<solid_milestone_index, cache_queue, cache_set, cache_capacity,
                   cache_log, milestone_validator_worker_tx, broadcast_calls,
                   solidification_calls, insert_calls, ilast>>
    /\ UNCHANGED <<senderVars, codec, walked, teardown, workers, calls>>
    /\ UNCHANGED <<tangleVars, queueVars, protocolVars>>

\* TransactionWorker::new(cache_size) and its channels before any event, and the
\* milestone indices of Tangle::new
IngestInit ==
    /\ milestone_validator_worker_tx = <<>>
    /\ broadcast_calls = <<>>
    /\ solidification_calls = <<>>
    /\ insert_calls = 0
    /\ ilast = NoEvent
    /\ solid_milestone_index = 0
    /\ last_milestone_index = 0

(***************************************************************************)
(* Teardown of the tangle and the loops of the workers.  The solidifier    *)
(* that receives from the solidifier channel and meets shutdown at the     *)
(* drop barrier is not among the sources; it is modelled from the          *)
(* specification: it handles the hashes in the order sent and, at the      *)
(* terminal sentinel, stops receiving and waits on the barrier.            *)
(***************************************************************************)
Workers == {"ingest", "requester", "milestone_validator", "sender"}

\* mutant: a send on a channel whose receiver is gone keeps waiting
Sent_WaitsForDroppedReceiver(ws, w) ==
    LET d == IF w = "ingest" THEN "milestone_validator" ELSE "sender"
    IN  IF ws[d].closed
        THEN [ws EXCEPT ![w].pc = "select"]
        ELSE IF ws[d].pc \in {"select", "sending"} /\ ws[d].inbox < MaxInbox
        THEN [ws EXCEPT ![w].pc = "select", ![d].inbox = @ + 1]
        ELSE [ws EXCEPT ![w].pc = "sending"]

\* `send(..).await` of the handler of w on the bounded channel of the worker d that
\* receives from it: the ingest worker sends tails on milestone_validator_worker_tx, the
\* requester sends through SenderWorker::send.  Without a sender context nothing is
\* sent; a dropped receiver (d has left its loop) makes the send fail, which is logged; a
\* full channel makes the handler wait; else the event is queued
Sent(ws, w) ==
    LET d == IF w = "ingest" THEN "milestone_validator" ELSE "sender"
    IN  IF ws[d].closed \/ ws[d].pc \notin {"select", "sending"}
        THEN [ws EXCEPT ![w].pc = "select"]
        ELSE IF ws[d].inbox < MaxInbox
        THEN [ws EXCEPT ![w].pc = "select", ![d].inbox = @ + 1]
        ELSE [ws EXCEPT ![w].pc = "sending"]

\* how the handler of one event can end, per worker.  ingest: a return before the store
\* ("undecodable"), digest(..).unwrap() on an error, a store, a store with a tail for the
\* milestone validator.  requester: entry discarded or requested.  milestone validator:
\* Ok or Err of validate_milestone.  sender: Ok or Err of network.send
Outcomes(w) ==
    CASE w = "ingest" -> {"undecodable", "hash_failed", "stored", "candidate"}
      [] w = "requester" -> {"discarded", "requested"}
      [] w = "milestone_validator" -> {"valid", "invalid"}
      [] OTHER -> {"sent", "send_failed"}

\* the event branch of the select of run(): the handler of the next event, up to its end
\* or to a send that has to wait.  Events keep arriving for the ingest worker and the
\* requester until the channel is closed
WorkerEvent(w, outcome) ==
    /\ workers[w].pc = "select"
    /\ outcome \in Outcomes(w)
    /\ IF w \in {"milestone_validator", "sender"}
       THEN workers[w].inbox > 0
       ELSE ~workers[w].closed
    /\ LET taken == [workers EXCEPT ![w].inbox = IF @ > 0 THEN @ - 1 ELSE 0]
       IN  workers' =
               CASE outcome = "hash_failed" ->
                        [taken EXCEPT ![w].pc = "panicked", ![w].inbox = 0]
                 [] outcome \in {"candidate", "requested"} -> Sent(taken, w)
                 [] OTHER -> taken
    /\ UNCHANGED <<tangleVars, queueVars, protocolVars, ingestVars, senderVars, codec,
                   walked, teardown, calls>>

\* the send the handler of w waits in completes: the channel has room again, or its
\* receiver was dropped
SendCompletes(w) ==
    /\ workers[w].pc = "sending"
    /\ Sent(workers, w) # workers
    /\ workers' = Sent(workers, w)
    /\ UNCHANGED <<tangleVars, queueVars, protocolVars, ingestVars, senderVars, codec,
                   walked, teardown, calls>>

\* the shutdown branch of the select: break; the receiver of the inbound channel is
\* dropped with the worker
WorkerStop(w) ==
    /\ workers[w].pc = "select"
    /\ workers[w].shutdown
    /\ workers' = [workers EXCEPT ![w].pc = "stopped", ![w].inbox = 0]
    /\ UNCHANGED <<tangleVars, queueVars, protocolVars, ingestVars, senderVars, codec,
                   walked, teardown, calls>>

\* the owner of the worker fires its one-shot shutdown signal
WorkerShutdown(w) ==
    /\ ~workers[w].shutdown
    /\ workers' = [workers EXCEPT ![w].shutdown = TRUE]
    /\ UNCHANGED <<tangleVars, queueVars, protocolVars, ingestVars, senderVars, codec,
                   walked, teardown, calls>>

\* the senders of the inbound channel of w are dropped; the tails for the milestone
\* validator are sent by the ingest worker, which holds its sender while it runs; the
\* requester pops from a queue that is never closed
CloseInbound(w) ==
    /\ w \in {"ingest", "milestone_validator", "sender"}
    /\ ~workers[w].closed
    /\ w = "milestone_validator" => workers["ingest"].pc \in {"stopped", "panicked"}
    /\ workers' = [workers EXCEPT ![w].closed = TRUE]
    /\ UNCHANGED <<tangleVars, queueVars, protocolVars, ingestVars, senderVars, codec,
                   walked, teardown, calls>>

\* Tangle::shutdown, a step of it: the sentinel is sent behind the hashes sent so far and
\* the caller waits on drop_barrier; or the solidifier has reached the barrier and
\* shutdown returns
shutdown ==
    /\ \/ /\ teardown.shutdown = "idle"
          /\ teardown' = [teardown EXCEPT !.shutdown = "waiting",
                                          !.sentinel = Len(solidifier_send)]
       \/ /\ teardown.shutdown = "waiting"
          /\ teardown.solidifier \in {"at_barrier", "dropped"}
          /\ teardown' = [teardown EXCEPT !.shutdown = "returned"]
    /\ UNCHANGED <<tangleVars, queueVars, protocolVars, ingestVars, senderVars, codec,
                   walked, workers, calls>>

\* a step of the solidifier: it receives the next hash, which it handles, or the
\* sentinel, at which it goes to the barrier (what was sent behind the sentinel is never
\* received); or, past the barrier, it drops the receiver of the solidifier channel
Solidifier ==
    /\ \/ /\ teardown.solidifier = "running"
          /\ IF teardown.handled < (IF teardown.sentinel < 0 THEN Len(solidifier_send)
                                                            ELSE teardown.sentinel)
             THEN teardown' = [teardown EXCEPT !.handled = @ + 1]
             ELSE /\ teardown.sentinel >= 0
                  /\ teardown' = [teardown EXCEPT !.solidifier = "at_barrier"]
       \/ /\ teardown.solidifier = "at_barrier"
          /\ teardown' = [teardown EXCEPT !.solidifier = "dropped"]
    /\ UNCHANGED <<tangleVars, queueVars, protocolVars, ingestVars, senderVars, codec,
                   walked, workers, calls>>

\* insert_transaction, called by the handler of the ingest worker for a hash that is not
\* stored, when the receiver of the solidifier channel is gone: the approvers and the
\* vertex are written, send returns Err and todo!() panics, which ends the worker
InsertTransactionClosed(transaction, hash) ==
    /\ teardown.solidifier = "dropped"
    /\ workers["ingest"].pc = "select"
    /\ InsertReturn(hash) = "some"
    /\ approvers' = ApproversAfterInsert(transaction, hash)
    /\ vertices' = VerticesInsert(vertices, hash, VertexFrom(transaction, hash))
    /\ tlast' = TOp("insert_transaction", transaction, hash, "panic")
    /\ tprev' = TPrev(tlast)
    /\ workers' = [workers EXCEPT !["ingest"].pc = "panicked", !["ingest"].inbox = 0]
    /\ UNCHANGED <<milestones, solid_entry_points, solidifier_send>>
    /\ UNCHANGED <<queueVars, protocolVars, ingestVars, senderVars, codec, walked,
                   teardown, calls>>

(***************************************************************************)
(* insert_transaction step by step, for calls that run side by side: each  *)
(* access of a DashMap (the entry match on approvers, vertices.insert) is  *)
(* one step, done under the lock of the shard.                             *)
(***************************************************************************)
\* the tasks that call into the tangle side by side, the two workers whose handlers are
\* followed step by step, and the milestone validator, whose last result is kept
Tasks == {"t1", "t2", "t3", "requester", "ingest", "milestone_validator"}

\* insert_transaction(transaction, hash), its first step: the match on
\* approvers.entry(trunk)
InsertTrunk(t, transaction, hash) ==
    /\ calls[t].pc = "idle"
    /\ approvers' = PushApprover(approvers, transaction.trunk, hash)
    /\ calls' = [calls EXCEPT ![t] = [pc |-> "branch", transaction |-> transaction,
                                      hash |-> hash, ret |-> "pending"]]
    /\ UNCHANGED <<vertices, milestones, solid_entry_points, solidifier_send, tlast, tprev>>
    /\ UNCHANGED <<queueVars, protocolVars, ingestVars, senderVars, codec, walked,
                   teardown, workers>>

\* mutant: the entry of the branch is not written
InsertBranch_Skipped(t) ==
    /\ calls[t].pc = "branch"
    /\ calls' = [calls EXCEPT ![t].pc = "vertex"]
    /\ UNCHANGED tangleVars
    /\ UNCHANGED <<queueVars, protocolVars, ingestVars, senderVars, codec, walked,
                   teardown, workers>>

\* the second step: the match on approvers.entry(branch) when trunk != branch
InsertBranch(t) ==
    /\ calls[t].pc = "branch"
    /\ approvers' = IF calls[t].transaction.trunk # calls[t].transaction.branch
                    THEN PushApprover(approvers, calls[t].transaction.branch, calls[t].hash)
                    ELSE approvers
    /\ calls' = [calls EXCEPT ![t].pc = "vertex"]
    /\ UNCHANGED <<vertices, milestones, solid_entry_points, solidifier_send, tlast, tprev>>
    /\ UNCHANGED <<queueVars, protocolVars, ingestVars, senderVars, codec, walked,
                   teardown, workers>>

\* mutant: whether the hash is stored is read in a step of its own, before the insert
InsertVertex_ReadThenWrite(t) ==
    \/ /\ calls[t].pc = "vertex"
       /\ calls' = [calls EXCEPT ![t].pc = "write", ![t].ret = InsertReturn(calls[t].hash)]
       /\ UNCHANGED tangleVars
       /\ UNCHANGED <<queueVars, protocolVars, ingestVars, senderVars, codec, walked,
                      teardown, workers>>
    \/ /\ calls[t].pc = "write"
       /\ vertices' = VerticesInsert(vertices, calls[t].hash,
                                     VertexFrom(calls[t].transaction, calls[t].hash))
       /\ solidifier_send' = IF calls[t].ret = "some"
                             THEN Append(solidifier_send, calls[t].hash)
                             ELSE solidifier_send
       /\ calls' = [calls EXCEPT ![t].pc = "done"]
       /\ UNCHANGED <<approvers, milestones, solid_entry_points, tlast, tprev>>
       /\ UNCHANGED <<queueVars, protocolVars, ingestVars, senderVars, codec, walked,
                      teardown, workers>>

\* the last step: vertices.insert(hash, vertex), and on None returned the send of
\* Some(hash) on the solidifier channel; the call returns
InsertVertex(t) ==
    /\ calls[t].pc = "vertex"
    /\ vertices' = VerticesInsert(vertices, calls[t].hash,
                                  VertexFrom(calls[t].transaction, calls[t].hash))
    /\ solidifier_send' = IF InsertReturn(calls[t].hash) = "some"
                          THEN Append(solidifier_send, calls[t].hash)
                          ELSE solidifier_send
    /\ calls' = [calls EXCEPT ![t].pc = "done", ![t].ret = InsertReturn(calls[t].hash)]
    /\ UNCHANGED <<approvers, milestones, solid_entry_points, tlast, tprev>>
    /\ UNCHANGED <<queueVars, protocolVars, ingestVars, senderVars, codec, walked,
                   teardown, workers>>

(***************************************************************************)
(* MilestoneValidatorWorker (worker/milestone_validator.rs).  The          *)
(* MilestoneBuilder is not among the sources: what validate() and build()  *)
(* yield is an input, `built`: a negative number for a validation error,   *)
(* else the index of the milestone, whose hash is the tail hash the        *)
(* builder was made with.                                                  *)
(***************************************************************************)
\* Protocol::get().config.coordinator.security_level
SecurityLevel == 1

RECURSIVE TrunkChainStored(_, _)
\* the loop of validate_milestone: n times the trunk of the transaction is fetched
TrunkChainStored(transaction, n) ==
    IF n = 0 THEN TRUE
    ELSE IF transaction.trunk \notin DOMAIN vertices THEN FALSE
    ELSE TrunkChainStored(vertices[transaction.trunk].transaction, n - 1)

\* mutant: the loop over the trunks comes before the test for a tail
validate_milestone_LoopFirst(tail_hash, built) ==
    IF tail_hash \notin DOMAIN vertices
    THEN [err |-> "UnknownTail", index |-> -1, hash |-> tail_hash]
    ELSE IF ~TrunkChainStored(vertices[tail_hash].transaction, SecurityLevel)
    THEN [err |-> "IncompleteBundle", index |-> -1, hash |-> tail_hash]
    ELSE IF ~is_tail(vertices[tail_hash].transaction)
    THEN [err |-> "NotATail", index |-> -1, hash |-> tail_hash]
    ELSE IF built < 0
    THEN [err |-> "InvalidMilestone", index |-> -1, hash |-> tail_hash]
    ELSE [err |-> "none", index |-> built, hash |-> tail_hash]

\* validate_milestone(tail_hash): the error, or the milestone built
validate_milestone(tail_hash, built) ==
    IF tail_hash \notin DOMAIN vertices
    THEN [err |-> "UnknownTail", index |-> -1, hash |-> tail_hash]
    ELSE IF ~is_tail(vertices[tail_hash].transaction)
    THEN [err |-> "NotATail", index |-> -1, hash |-> tail_hash]
    ELSE IF ~TrunkChainStored(vertices[tail_hash].transaction, SecurityLevel)
    THEN [err |-> "IncompleteBundle", index |-> -1, hash |-> tail_hash]
    ELSE IF built < 0
    THEN [err |-> "InvalidMilestone", index |-> -1, hash |-> tail_hash]
    ELSE [err |-> "none", index |-> built, hash |-> tail_hash]

\* mutant: the last milestone index is set to the index of every valid milestone
MilestoneValidatorRun_AlwaysUpdates(tail_hash, built) ==
    LET milestone == validate_milestone(tail_hash, built)
    IN  /\ workers["milestone_validator"].pc = "select"
        /\ calls' = [calls EXCEPT !["milestone_validator"] =
                        [pc |-> "done", hash |-> tail_hash, ret |-> milestone.err,
                         index |-> milestone.index]]
        /\ IF milestone.err = "none"
           THEN /\ milestones' = (milestone.index :> milestone.hash) @@ milestones
                /\ vertices' = [vertices EXCEPT ![milestone.hash].milestone = TRUE]
                /\ last_milestone_index' = milestone.index
           ELSE UNCHANGED <<milestones, vertices, last_milestone_index>>
        /\ UNCHANGED <<approvers, solid_entry_points, solidifier_send, tlast, tprev>>
        /\ UNCHANGED <<solid_milestone_index, cache_queue, cache_set, cache_capacity,
                       cache_log, milestone_validator_worker_tx, broadcast_calls,
                       solidification_calls, insert_calls, ilast>>
        /\ UNCHANGED <<queueVars, protocolVars, senderVars, codec, walked, teardown, workers>>

\* one turn of the loop of run() for the tail hash received: Ok(milestone) is recorded
\* with add_milestone and raises the last milestone index when its index is greater; an
\* error is logged, IncompleteBundle not even that, and the loop goes on
MilestoneValidatorRun(tail_hash, built) ==
    LET milestone == validate_milestone(tail_hash, built)
    IN  /\ workers["milestone_validator"].pc = "select"
        /\ calls' = [calls EXCEPT !["milestone_validator"] =
                        [pc |-> "done", hash |-> tail_hash, ret |-> milestone.err,
                         index |-> milestone.index]]
        /\ IF milestone.err = "none"
           THEN /\ milestones' = (milestone.index :> milestone.hash) @@ milestones
                /\ vertices' = [vertices EXCEPT ![milestone.hash].milestone = TRUE]
                /\ last_milestone_index' =
                       IF milestone.index > last_milestone_index
                       THEN milestone.index
                       ELSE last_milestone_index
           ELSE UNCHANGED <<milestones, vertices, last_milestone_index>>
        /\ UNCHANGED <<approvers, solid_entry_points, solidifier_send, tlast, tprev>>
        /\ UNCHANGED <<solid_milestone_index, cache_queue, cache_set, cache_capacity,
                       cache_log, milestone_validator_worker_tx, broadcast_calls,
                       solidification_calls, insert_calls, ilast>>
        /\ UNCHANGED <<queueVars, protocolVars, senderVars, codec, walked, teardown, workers>>

\* Tangle::new and the workers at the start of run()
LifeInit ==
    /\ teardown = [shutdown |-> "idle", sentinel |-> -1, handled |-> 0,
                   solidifier |-> "running"]
    /\ workers = [w \in Workers |->
                     [pc |-> "select", shutdown |-> FALSE, closed |-> FALSE, inbox |-> 0]]
    /\ calls = [t \in Tasks |-> [pc |-> "idle"]]

ProtocolInit ==
    /\ requested = <<>>
    /\ handshaked_peers = {}
    /\ contexts = {}
    /\ transaction_request = [epid \in Peers |-> <<>>]
    /\ rlast = NoRun

\* no message is in the codec and no traversal was made
NoCodec == [stage |-> "none"]

NoWalk == [op |-> "none", fixture |-> "none"]

Init ==
    /\ TangleInit
    /\ QueueInit
    /\ ProtocolInit
    /\ CacheNew(MaxCapacity)
    /\ IngestInit
    /\ SenderInit
    /\ codec = NoCodec
    /\ walked = NoWalk
    /\ LifeInit

(***************************************************************************)
(* SpecTangle: the store under arbitrary insert_transaction, add_milestone *)
(* and remove_milestone calls.                                             *)
(***************************************************************************)
NextTangle ==
    \/ \E transaction \in Transactions, hash \in Hashes :
          ApproverEntries < MaxApproverEntries /\ InsertTransaction(transaction, hash)
    \/ \E index \in 1..MaxMilestoneIndex, hash \in Hashes : add_milestone(index, hash)
    \/ \E index \in 1..MaxMilestoneIndex : remove_milestone(index)

SpecTangle == Init /\ [][NextTangle]_vars

(***************************************************************************)
(* Properties of the Tangle store.                                         *)
(***************************************************************************)
InSeq(x, seq) == \E i \in 1..Len(seq) : seq[i] = x

ApproversOf(hash) == IF hash \in DOMAIN approvers THEN approvers[hash] ELSE <<>>

\* C1: after insert_transaction(tx, h) returns, contains_transaction(h) holds, h is in
\* approvers[tx.trunk] and, when tx.trunk differs from tx.branch, in approvers[tx.branch].
C1_InsertLinksApprovers ==
    tlast.op = "insert_transaction" =>
        /\ contains_transaction(tlast.hash)
        /\ InSeq(tlast.hash, ApproversOf(tlast.transaction.trunk))
        /\ tlast.transaction.trunk # tlast.transaction.branch =>
               InSeq(tlast.hash, ApproversOf(tlast.transaction.branch))

\* an insert of a new hash whose transaction has distinct trunk and branch has returned
C1_Witness ==
    /\ tlast.op = "insert_transaction"
    /\ tlast.ret = "some"
    /\ tlast.transaction.trunk # tlast.transaction.branch
    /\ tlast.branch_approvers_before = 0
    /\ num_approvers(tlast.transaction.branch) = 1

\* two consecutive insert_transaction calls with the same hash, not stored before the first
TwoInsertsOfSameHash ==
    /\ tprev.op = "insert_transaction"
    /\ tlast.op = "insert_transaction"
    /\ tprev.hash = tlast.hash
    /\ ~tprev.stored_before

\* C2: inserting the same hash twice returns a handle the first time and none the second
\* time, and over the two calls size() grows by exactly one.
C2_SecondInsertReturnsNone ==
    TwoInsertsOfSameHash =>
        /\ tprev.ret = "some"
        /\ tlast.ret = "none"
        /\ size = tprev.size_before + 1

\* the same hash has been inserted twice in a row into the empty store
C2_Witness == TwoInsertsOfSameHash /\ tprev.size_before = 0 /\ tlast.ret = "none" /\ size = 1

\* C3: a second insert_transaction(tx2, h) for a stored hash h is a no-op on the vertex:
\* the vertex stored at h keeps its transaction and its solid and milestone flags. Stated
\* for the calls that respect the documented assumption that a hash determines its
\* transaction (tx2 is the transaction stored at h).
C3_FirstWriteWins ==
    [][\A transaction \in Transactions, hash \in Hashes :
          (/\ insert_transaction(transaction, hash)
           /\ hash \in DOMAIN vertices
           /\ vertices[hash].transaction = transaction)
              => vertices'[hash] = vertices[hash]]_vars

\* C30: a call insert_transaction(tx, h) for a stored h returns none and has appended h
\* to approvers[tx.trunk], and to approvers[tx.branch] when that is another hash: each
\* of the lists is one longer than before the call and ends with h, nothing is rolled
\* back; when tx is the transaction stored under h, each of the lists holds h twice or
\* more.
C30_ApproversNotRolledBack ==
    (tlast.op = "insert_transaction" /\ tlast.vertex_before # <<>>) =>
        LET tx == tlast.transaction
            h == tlast.hash
            occurrences(key) ==
                Cardinality({i \in 1..Len(approvers[key]) : approvers[key][i] = h})
        IN  /\ tlast.ret = "none"
            /\ num_approvers(tx.trunk) = tlast.trunk_approvers_before + 1
            /\ approvers[tx.trunk][Len(approvers[tx.trunk])] = h
            /\ tx.branch # tx.trunk =>
                   /\ num_approvers(tx.branch) = tlast.branch_approvers_before + 1
                   /\ approvers[tx.branch][Len(approvers[tx.branch])] = h
            /\ tlast.vertex_before[1].transaction = tx =>
                   /\ occurrences(tx.trunk) >= 2
                   /\ occurrences(tx.branch) >= 2

\* the stored transaction was inserted a second time under its hash: none was returned
\* and the approver list of its trunk holds the hash twice
C30_Witness ==
    /\ tlast.op = "insert_transaction"
    /\ tlast.vertex_before # <<>>
    /\ tlast.vertex_before[1].transaction = tlast.transaction
    /\ tlast.ret = "none"
    /\ approvers[tlast.transaction.trunk] = <<tlast.hash, tlast.hash>>

\* C36: the flags of a vertex only ever get set: when the vertex stored at h has its
\* solid or its milestone flag set, the vertex stored at h has it set after every call
\* of insert_transaction, add_milestone and remove_milestone, the repeated
\* insert_transaction for h among them.
C36_FlagsMonotonic ==
    [][\A hash \in DOMAIN vertices :
          /\ hash \in DOMAIN vertices'
          /\ vertices[hash].solid => vertices'[hash].solid
          /\ vertices[hash].milestone => vertices'[hash].milestone]_vars

(***************************************************************************)
(* SpecHeap: one consumer popping a queue filled with entries of one hash  *)
(* and priorities 1..MaxPriority.                                          *)
(***************************************************************************)
PriorityEntries == {Entry(MkHash(1), i) : i \in 1..MaxPriority}

NextHeap ==
    \/ \E entry \in PriorityEntries : BagCardinality(heap) < MaxHeap /\ Insert(entry)
    \/ Poll("requester")

SpecHeap == Init /\ [][NextHeap]_vars

Priorities(log) == [i \in 1..Len(log) |-> log[i].index]

\* C4: pop returns a maximum-priority entry among those held; pops with no insert in
\* between are non-increasing in priority; a heap filled with priorities 3, 1, 4, 1, 5 and
\* then emptied by five pops returns 5, 4, 3, 1, 1.
C4_PopsMaxFirst ==
    /\ (qlast.op = "poll" /\ qlast.ret = "ready") =>
           \A f \in BagToSet(qlast.heap_before) : f.index <= qlast.entry.index
    /\ \A i, j \in 1..Len(popLog) : i < j => popLog[i].index >= popLog[j].index
    /\ (/\ heap = EmptyBag
        /\ Len(popLog) = 5
        /\ \A p \in 1..5 : Cardinality({i \in 1..5 : popLog[i].index = p})
                               = (IF p = 1 THEN 2 ELSE IF p = 2 THEN 0 ELSE 1))
           => Priorities(popLog) = <<5, 4, 3, 1, 1>>

\* the heap held priorities 3, 1, 4, 1, 5 and five pops have emptied it
C4_Witness == heap = EmptyBag /\ Priorities(popLog) = <<5, 4, 3, 1, 1>>

(***************************************************************************)
(* SpecQueue: producers and two consumer tasks on the requester queue.     *)
(***************************************************************************)
QueueEntries == {Entry(h, i) : h \in Hashes, i \in 1..MaxIndex}

NextQueue ==
    \/ \E entry \in QueueEntries : BagCardinality(heap) < MaxQueue /\ Insert(entry)
    \/ \E c \in Consumers : Poll(c)
    \/ \E c \in Consumers : Abandon(c)

SpecQueue == Init /\ [][NextQueue]_vars

\* the last operation was a poll by a consumer that an insert had woken
WokenPoll == qlast.op = "poll" /\ qlast.cstate_before[qlast.consumer] = "woken"

\* the entry whose insert woke the consumer of the last poll
WokenBy == qlast.woken_for_before[qlast.consumer][1]

\* C5 as stated: a pop on an empty queue suspends the caller, a subsequent insert(x)
\* wakes exactly one registered waiter, and that waiter's pop then returns x.
C5_WokenWaiterReturnsInserted ==
    WokenPoll => (qlast.ret = "ready" /\ qlast.entry = WokenBy)

\* C5 as amended: a poll on an empty heap registers the caller's handle at the back and
\* returns pending; an insert signals exactly the oldest registered handle, so at most one
\* suspended waiter wakes; the woken waiter's poll returns a maximum-priority entry of the
\* heap as it then is (the inserted x when x is still held and nothing held has an equal or
\* higher priority) and suspends again when the heap has been emptied.
C5_InsertWakesOldestWaiter ==
    /\ (qlast.op = "poll" /\ qlast.heap_before = EmptyBag) =>
           /\ qlast.ret = "pending"
           /\ heap = EmptyBag
           /\ wakers = Append(qlast.wakers_before, qlast.consumer)
           /\ cstate[qlast.consumer] = "pending"
    /\ (qlast.op = "insert" /\ qlast.wakers_before # <<>>) =>
           /\ wakers = Tail(qlast.wakers_before)
           /\ \A c \in Consumers :
                  cstate[c] # qlast.cstate_before[c] =>
                      (c = Head(qlast.wakers_before) /\ cstate[c] = "woken")
           /\ qlast.cstate_before[Head(qlast.wakers_before)] = "pending" =>
                  /\ cstate[Head(qlast.wakers_before)] = "woken"
                  /\ wokenFor[Head(qlast.wakers_before)] = <<qlast.entry>>
    /\ (qlast.op = "insert" /\ qlast.wakers_before = <<>>) =>
           (wakers = <<>> /\ cstate = qlast.cstate_before)
    /\ (WokenPoll /\ qlast.heap_before # EmptyBag) =>
           /\ qlast.ret = "ready"
           /\ \A f \in BagToSet(qlast.heap_before) : f.index <= qlast.entry.index
           /\ (/\ BagIn(WokenBy, qlast.heap_before)
               /\ \A f \in BagToSet(qlast.heap_before) \ {WokenBy} : f.index < WokenBy.index)
                  => qlast.entry = WokenBy

\* a waiter suspended on the empty queue was woken by insert(x) and its poll returned x
\* while the other consumer stayed suspended
C5_Witness ==
    /\ WokenPoll
    /\ qlast.ret = "ready"
    /\ qlast.entry = WokenBy
    /\ \E c \in Consumers \ {qlast.consumer} : cstate[c] = "pending"

\* C6: of the entries held at the time of a pop, the one with the lowest milestone index
\* is served first.
C6_LowestIndexFirst ==
    (qlast.op = "poll" /\ qlast.ret = "ready") =>
        \A f \in BagToSet(qlast.heap_before) : qlast.entry.index <= f.index

\* C7: of the entries held at the time of a pop, the one with the largest milestone index
\* is popped first.
C7_LargestIndexFirst ==
    (qlast.op = "poll" /\ qlast.ret = "ready") =>
        \A f \in BagToSet(qlast.heap_before) : qlast.entry.index >= f.index

\* a pop took an entry while the queue held entries of two different milestone indices
C7_Witness ==
    /\ qlast.op = "poll"
    /\ qlast.ret = "ready"
    /\ \E f \in BagToSet(qlast.heap_before) : f.index < qlast.entry.index

(***************************************************************************)
(* SpecRequester: the requester worker on its queue, with peers coming and *)
(* going, transactions being stored and solid entry points changing.       *)
(***************************************************************************)
\* the hash that becomes a solid entry point and the hash that gets stored
EntryPointHash == MkHash(1)

StoredHash == MkHash(NumHashes)

\* the entries requested: for either of these two hashes, under any index
RequestEntries == {Entry(h, i) : h \in {EntryPointHash, StoredHash}, i \in 1..MaxIndex}

NextRequester ==
    \/ \E entry \in RequestEntries : BagCardinality(heap) < MaxPending /\ Request(entry)
    \/ SumLen(transaction_request, Peers) < MaxChannel /\ RequesterRun
    \/ \E epid \in Peers : Handshake(epid)
    \/ \E epid \in Peers : InstallContext(epid)
    \/ \E epid \in Peers : Disconnect(epid)
    \/ StoredHash \notin DOMAIN vertices /\ Store(StoredHash)
    \/ add_solid_entry_point(EntryPointHash)
    \/ remove_solid_entry_point(EntryPointHash)

SpecRequester == Init /\ [][NextRequester]_vars

\* the bytes are the T5B1 packing of the hash: five trits a byte, unused positions zero
IsT5B1Of(bytes, hash) ==
    /\ Len(bytes) = (Len(hash) + TPB - 1) \div TPB
    /\ \A k \in 0..(Len(bytes) * TPB - 1) :
          T5B1Extract(U8AsI8(bytes[(k \div TPB) + 1]), k % TPB)
              = (IF k < Len(hash) THEN hash[k + 1] ELSE 0)

\* the requester has just processed a popped entry whose hash was neither a solid entry
\* point nor stored
Processed == rlast.op = "process"

\* C8: when the requester processes an entry (h, i) with exactly one peer handshaked, and
\* that peer has a sender context, h -> i is recorded in the requested-map and exactly one
\* TransactionRequest carrying the T5B1 encoding of h is enqueued on that peer's channel.
C8_RequestSentToOnlyPeer ==
    \A epid \in Peers :
        (Processed /\ rlast.peers_before = {epid} /\ epid \in rlast.contexts_before) =>
            /\ rlast.entry.hash \in DOMAIN requested
            /\ requested[rlast.entry.hash] = rlast.entry.index
            /\ Len(transaction_request[epid]) = Len(rlast.channels_before[epid]) + 1
            /\ SubSeq(transaction_request[epid], 1, Len(rlast.channels_before[epid]))
                   = rlast.channels_before[epid]
            /\ LET message == transaction_request[epid][Len(transaction_request[epid])]
               IN  /\ message.kind = "TransactionRequest"
                   /\ IsT5B1Of(message.hash, rlast.entry.hash)
            /\ \A other \in Peers \ {epid} :
                   transaction_request[other] = rlast.channels_before[other]

\* an entry was processed with one handshaked peer while the other peer, not handshaked,
\* had a context too, and the hash had been recorded before under another index
C8_Witness ==
    \E epid \in Peers :
        /\ Processed
        /\ rlast.peers_before = {epid}
        /\ rlast.contexts_before = Peers
        /\ rlast.entry.hash \in DOMAIN rlast.requested_before
        /\ rlast.requested_before[rlast.entry.hash] # rlast.entry.index

\* the requester has just popped an entry
Popped == rlast.op \in {"process", "discard"}

\* C9: with no handshaked peers, popping an entry enqueues nothing on any sender channel
\* and leaves the requested-map unchanged.
C9_NoPeersNoEffect ==
    (Popped /\ rlast.peers_before = {}) =>
        /\ transaction_request = rlast.channels_before
        /\ requested = rlast.requested_before

\* an entry for a missing hash was processed with no peer handshaked, while a sender
\* context was installed and the requested-map was not empty
C9_Witness ==
    /\ Processed
    /\ rlast.peers_before = {}
    /\ rlast.contexts_before # {}
    /\ rlast.requested_before # <<>>

\* C10 as stated: with no handshaked peers the processed request (h, i) is dropped without
\* being sent but stays recorded, requested[h] = i.
C10_DroppedRequestStaysRecorded ==
    (Processed /\ rlast.peers_before = {}) =>
        /\ transaction_request = rlast.channels_before
        /\ rlast.entry.hash \in DOMAIN requested
        /\ requested[rlast.entry.hash] = rlast.entry.index

\* C10 as amended: with no handshaked peers the processed request (h, i) is dropped
\* without being sent and without being recorded: h is in the requested-map afterwards
\* only if it was before, and then under the index it had before.
C10_DroppedRequestNotRecorded ==
    (Processed /\ rlast.peers_before = {}) =>
        /\ \A epid \in Peers :
               Len(transaction_request[epid]) = Len(rlast.channels_before[epid])
        /\ (rlast.entry.hash \in DOMAIN requested)
               = (rlast.entry.hash \in DOMAIN rlast.requested_before)
        /\ rlast.entry.hash \in DOMAIN requested =>
               requested[rlast.entry.hash] = rlast.requested_before[rlast.entry.hash]

\* a request for a hash that was not recorded was processed with no peer handshaked and
\* is not recorded afterwards
C10_Witness ==
    /\ Processed
    /\ rlast.peers_before = {}
    /\ rlast.entry.hash \notin DOMAIN requested

\* C29: when the requester has popped an entry whose hash is a solid entry point or is
\* stored, the entry is discarded: no sender channel has received a TransactionRequest
\* and the requested-map is as it was before the pop.
C29_KnownHashDiscarded ==
    (/\ Popped
     /\ \/ is_solid_entry_point(rlast.entry.hash)
        \/ contains_transaction(rlast.entry.hash))
        => /\ rlast.op = "discard"
           /\ transaction_request = rlast.channels_before
           /\ requested = rlast.requested_before

\* an entry for a solid entry point that is not stored was popped and discarded while a
\* peer was handshaked and had a sender context
C29_Witness ==
    /\ rlast.op = "discard"
    /\ is_solid_entry_point(rlast.entry.hash)
    /\ ~contains_transaction(rlast.entry.hash)
    /\ rlast.peers_before \cap rlast.contexts_before # {}

(***************************************************************************)
(* SpecIngest: the ingest worker fed payloads by two peers, next to the    *)
(* requester recording requests and the milestone indices moving.          *)
(***************************************************************************)
\* the entries requested while the ingest worker runs

InitIngest ==
    /\ TangleInit
    /\ QueueInit
    /\ ProtocolInit
    /\ \E capacity \in 1..MaxCapacity : CacheNew(capacity)
    /\ IngestInit
    /\ SenderInit
    /\ codec = NoCodec
    /\ walked = NoWalk
    /\ LifeInit

NextIngest ==
    \/ \E from \in Peers, payload \in Payloads :
          ilast.seq < MaxEvents /\ process_transaction_brodcast(from, payload)
    \/ RequesterProcess(Entry(TailHash, 1))
    \/ Handshake("epid1")
    \/ update_last_milestone_index(1 - last_milestone_index)

SpecIngest == InitIngest /\ [][NextIngest]_vars

\* the ingest worker has just been fed the payload it was fed before
FedTwice == ilast.seq >= 2 /\ ilast.payload = ilast.prev_payload

\* what an event of the ingest worker leaves alone when it is discarded
IngestEffects ==
    <<vertices, approvers, solidifier_send, insert_calls, requested, broadcast_calls,
      solidification_calls, milestone_validator_worker_tx>>

\* C11: when the same payload is fed to the ingest worker twice, the second feed is
\* discarded at the cache: insert_transaction is not called again, the tangle (so its
\* size) stays, and no broadcast, solidification trigger or milestone-validator message
\* results; the same holds for every feed of a payload the cache holds.
C11_SecondFeedBlockedByCache ==
    [][\A from \in Peers, payload \in Payloads :
          (/\ process_transaction_brodcast(from, payload)
           /\ \/ (ilast.seq >= 1 /\ ilast.payload = payload.id)
              \/ InSeq(payload.id, cache_queue))
              => /\ ilast'.op = "cached"
                 /\ UNCHANGED IngestEffects
                 /\ UNCHANGED <<cache_queue, cache_set>>]_vars

\* the tail payload was stored by the first feed and fed again: the tangle holds one
\* transaction
C11_Witness ==
    /\ FedTwice
    /\ ilast.prev_op = "stored"
    /\ ilast.op = "cached"
    /\ size = 1
    /\ insert_calls = 1

\* the number of occurrences of x in seq
Count(x, seq) == Cardinality({i \in 1..Len(seq) : seq[i] = x})

\* the position of the first occurrence of x in seq
Pos(x, seq) == CHOOSE i \in 1..Len(seq) : seq[i] = x /\ \A j \in 1..(i - 1) : seq[j] # x

\* both transactions of the coordinator's bundle are stored
BundleStored == contains_transaction(TailHash) /\ contains_transaction(HeadHash)

\* the tail was stored before the head (the solidifier channel lists the hashes in the
\* order they were stored)
TailFirst == Pos(TailHash, solidifier_send) < Pos(HeadHash, solidifier_send)

\* C12 as stated: once the tail and the head of the coordinator's bundle are ingested, in
\* either arrival order, the tail hash is on the milestone-validator channel exactly once.
C12_TailEnqueuedOnce ==
    BundleStored => Count(TailHash, milestone_validator_worker_tx) = 1

\* C12 as amended: the tail hash is enqueued once for every transaction of the bundle
\* whose arrival finds the tail: exactly once when the head arrives first (the head's walk
\* finds no tail, the tail's arrival enqueues it), twice when the tail arrives first (once
\* at its own arrival, once more when the head's walk reaches it); before the tail is
\* stored it is not enqueued, and no other hash is ever enqueued.
C12_TailEnqueuedPerArrival ==
    /\ BundleStored =>
           Count(TailHash, milestone_validator_worker_tx) = (IF TailFirst THEN 2 ELSE 1)
    /\ (contains_transaction(TailHash) /\ ~contains_transaction(HeadHash)) =>
           Count(TailHash, milestone_validator_worker_tx) = 1
    /\ ~contains_transaction(TailHash) => milestone_validator_worker_tx = <<>>
    /\ \A i \in 1..Len(milestone_validator_worker_tx) :
           milestone_validator_worker_tx[i] = TailHash

\* the tail was ingested before the head and is on the channel twice
C12_Witness ==
    /\ BundleStored
    /\ TailFirst
    /\ milestone_validator_worker_tx = <<TailHash, TailHash>>

\* the calls of the given trigger among the solidification calls, in their order
Triggered(trigger, made) == SelectSeq(made, LAMBDA call : call[1] = trigger)

\* C25: when the ingest worker newly stores hash h, then either h was requested: its
\* entry, and only its entry, leaves the requested-map,
\* trigger_transaction_solidification(h, index) is called once with the recorded index
\* and nothing is re-broadcast; or h was not requested: the payload is handed to
\* broadcast_transaction_message once with the peer it came from as the one to leave out,
\* the requested-map stays and no transaction solidification is triggered.
C25_RequestedOrRebroadcast ==
    [][\A from \in Peers, payload \in Payloads :
          (process_transaction_brodcast(from, payload) /\ ilast'.op = "stored")
              => IF payload.hash \in DOMAIN requested
                 THEN /\ requested' = [h \in DOMAIN requested \ {payload.hash} |->
                                          requested[h]]
                      /\ Triggered("transaction", solidification_calls')
                            = Append(Triggered("transaction", solidification_calls),
                                     <<"transaction", payload.hash,
                                       requested[payload.hash]>>)
                      /\ broadcast_calls' = broadcast_calls
                 ELSE /\ requested' = requested
                      /\ Triggered("transaction", solidification_calls')
                            = Triggered("transaction", solidification_calls)
                      /\ broadcast_calls' =
                            Append(broadcast_calls,
                                   [from |-> from, payload |-> payload.id])]_vars

\* the requested tail was stored: its entry is gone, its solidification was triggered with
\* the recorded index and it was not re-broadcast; a transaction that was not requested
\* was re-broadcast
C25_Witness ==
    /\ contains_transaction(TailHash)
    /\ requested = <<>>
    /\ Triggered("transaction", solidification_calls) = << <<"transaction", TailHash, 1>> >>
    /\ Len(broadcast_calls) = 1
    /\ broadcast_calls[1].payload # "tail"

\* C26: an event of the ingest worker that newly stores a transaction calls
\* trigger_milestone_solidification once if, before the event, solid-milestone-index
\* differs from last-milestone-index and the requested-map is empty (the arriving hash
\* still in it if it was requested), and not at all otherwise; an event that stores
\* nothing does not call it.
C26_MilestoneSolidification ==
    [][\A from \in Peers, payload \in Payloads :
          process_transaction_brodcast(from, payload)
              => Triggered("milestone", solidification_calls')
                    = IF /\ ilast'.op = "stored"
                         /\ solid_milestone_index # last_milestone_index
                         /\ requested = <<>>
                      THEN Append(Triggered("milestone", solidification_calls),
                                  <<"milestone">>)
                      ELSE Triggered("milestone", solidification_calls)]_vars

\* two transactions were stored, one of them requested; milestone solidification was
\* triggered by one of the two stores only
C26_Witness ==
    /\ Len(Triggered("milestone", solidification_calls)) = 1
    /\ Len(Triggered("transaction", solidification_calls)) = 1
    /\ insert_calls = 2
    /\ size = 2
    /\ ilast.op = "stored"

\* C27: an event whose hash weighs less than the minimum weight magnitude changes
\* neither vertices nor approvers, calls neither insert_transaction nor a broadcast nor a
\* solidification trigger and sends nothing to the milestone validator; every hash the
\* ingest worker stored has a weight of at least the minimum.
C27_WeightGate ==
    /\ [](\A payload \in Payloads :
             contains_transaction(payload.hash) => payload.weight >= Mwm)
    /\ [][\A from \in Peers, payload \in Payloads :
             (process_transaction_brodcast(from, payload) /\ payload.weight < Mwm)
                 => UNCHANGED IngestEffects]_vars

\* the light payload got as far as the weight check, with the tangle not empty
C27_Witness ==
    /\ ilast.op = "light"
    /\ ilast.payload = "light"
    /\ size > 0

\* C28: an event whose payload passes the cache and the weight check and decodes to a
\* stored hash calls insert_transaction and is discarded: the requested-map, the
\* broadcasts, the solidification triggers and the channel of the milestone validator
\* stay as they are, and so does the number of stored transactions.
C28_PresentDiscarded ==
    [][\A from \in Peers, payload \in Payloads :
          (/\ process_transaction_brodcast(from, payload)
           /\ ilast'.op \notin {"cached", "malformed", "unparsable", "light"}
           /\ contains_transaction(payload.hash))
              => /\ insert_calls' = insert_calls + 1
                 /\ size' = size
                 /\ UNCHANGED <<requested, broadcast_calls, solidification_calls,
                                milestone_validator_worker_tx, solidifier_send>>]_vars

\* the second encoding of the stored tail passed the cache and was found present
C28_Witness ==
    /\ ilast.op = "present"
    /\ ilast.payload = "tail2"
    /\ ilast.prev_payload = "tail"
    /\ insert_calls = 2
    /\ size = 1

(***************************************************************************)
(* The sender tasks with the callers of send and broadcast                 *)
(***************************************************************************)
NextSender ==
    \/ \E epid \in Peers, kind \in Kinds :
          enqueued < MaxMessages /\ SenderSend(epid, kind)
    \/ \E kind \in Kinds, order \in [contexts -> 1..Cardinality(contexts)] :
          /\ \A e1, e2 \in contexts : e1 # e2 => order[e1] # order[e2]
          /\ enqueued + Cardinality(contexts) <= MaxMessages
          /\ SenderBroadcast(kind, order)
    \/ \E epid \in Peers, kind \in Kinds, ok \in BOOLEAN : SenderRun(epid, kind, ok)
    \/ \E epid \in Peers : InstallContext(epid)
    \/ \E epid \in Peers : Disconnect(epid)

SpecSender == Init /\ [][NextSender]_vars

\* C13: for every peer and every kind, the messages the sender task handed to the network
\* are in the order in which send and broadcast enqueued them for that peer and kind.
C13_PerPeerKindOrder ==
    \A i, j \in 1..Len(network) :
        (i < j /\ network[i].epid = network[j].epid /\ network[i].kind = network[j].kind)
            => network[i].seq < network[j].seq

\* two messages of one peer and kind were handed over in their order of enqueueing,
\* while a message of another kind, enqueued between them, was handed over after both
C13_Witness ==
    \E i, j, k \in 1..Len(network) :
        /\ i < j /\ j < k
        /\ network[i].epid = network[j].epid /\ network[i].kind = network[j].kind
        /\ network[k].kind # network[i].kind
        /\ network[i].seq < network[k].seq /\ network[k].seq < network[j].seq

(***************************************************************************)
(* The codec applied to the messages offered                               *)
(***************************************************************************)
InitCodec ==
    /\ TangleInit
    /\ QueueInit
    /\ ProtocolInit
    /\ CacheNew(MaxCapacity)
    /\ IngestInit
    /\ SenderInit
    /\ \E kind \in Kinds : \E message \in CodecMessages(kind) : CodecNew(kind, message)
    /\ walked = NoWalk
    /\ LifeInit

NextCodec ==
    \/ IntoFullBytes
    \/ \E d \in (0 - MaxOffset)..MaxOffset, cut \in 0..MaxOffset : Alter(d, cut)
    \/ FromFullBytes
    \/ FromBytes

SpecCodec == InitCodec /\ [][NextCodec]_vars

\* the body of the message as the wire table lays it out: a blob as it is, a u32 field as
\* four bytes, most significant first
WireBody(message) ==
    IF codec.kind \in {"TransactionBroadcast", "TransactionRequest"} THEN message
    ELSE IF codec.kind = "MilestoneRequest" THEN ToBe(message[1], 4)
    ELSE ToBe(message[1], 4) \o ToBe(message[2], 4)

WireSizes ==
    CASE codec.kind = "MilestoneRequest" -> 4..4
      [] codec.kind = "TransactionRequest" -> 49..49
      [] codec.kind = "TransactionBroadcast" -> 292..1604
      [] codec.kind = "Heartbeat" -> 8..8

WireID ==
    CASE codec.kind = "MilestoneRequest" -> 2
      [] codec.kind = "TransactionRequest" -> 3
      [] codec.kind = "TransactionBroadcast" -> 4
      [] codec.kind = "Heartbeat" -> 6

\* C14: for a message whose body size lies in the size range of its kind, decoding the
\* bytes of into_full_bytes with from_full_bytes (header: the first 3 bytes, payload: the
\* rest) yields the message; the bytes are 3 + size long, byte 0 is the ID of the kind
\* and bytes 1..3 are the size as a 16-bit number, most significant byte first.
C14_FullBytesRoundTrip ==
    (/\ codec.stage \in {"bytes", "decoded"}
     /\ ~codec.altered
     /\ Len(WireBody(codec.message)) \in WireSizes)
        => /\ Len(codec.bytes) = 3 + Len(WireBody(codec.message))
           /\ codec.bytes[1] = WireID
           /\ codec.bytes[2] * 256 + codec.bytes[3] = Len(WireBody(codec.message))
           /\ SubSeq(codec.bytes, 4, Len(codec.bytes)) = WireBody(codec.message)
           /\ (codec.stage = "decoded" /\ codec.op = "from_full_bytes")
                  => codec.result = [ok |-> TRUE, message |-> codec.message]

\* a transaction broadcast of the greatest size, not all zeros, came back from the bytes
C14_Witness ==
    /\ codec.stage = "decoded"
    /\ codec.op = "from_full_bytes"
    /\ ~codec.altered
    /\ codec.kind = "TransactionBroadcast"
    /\ Len(codec.message) = 1604
    /\ codec.message[2] = 1
    /\ codec.bytes[2] = 6 /\ codec.bytes[3] = 68
    /\ codec.result = [ok |-> TRUE, message |-> codec.message]

\* C15: TransactionBroadcast::from_bytes(p) returns InvalidPayloadLength(len(p)) exactly
\* when len(p) is outside 292..=1604, and succeeds inside; from_full_bytes returns
\* InvalidAdvertisedLength(advertised, actual) whenever the 16-bit length of the header
\* differs from the length of the payload, whether or not that length is in the range.
C15_LengthErrors ==
    LET payload == SubSeq(codec.bytes, 4, Len(codec.bytes))
        advertised == codec.bytes[2] * 256 + codec.bytes[3]
    IN  codec.stage = "decoded" =>
           /\ (codec.op = "from_bytes" /\ codec.kind = "TransactionBroadcast") =>
                  IF Len(payload) \in 292..1604
                  THEN codec.result = [ok |-> TRUE, message |-> payload]
                  ELSE codec.result =
                           [ok |-> FALSE, error |-> <<"InvalidPayloadLength", Len(payload)>>]
           /\ (codec.op = "from_full_bytes" /\ advertised # Len(payload)) =>
                  codec.result =
                      [ok |-> FALSE,
                       error |-> <<"InvalidAdvertisedLength", advertised, Len(payload)>>]

\* a payload of 1605 bytes under a header advertising 1604 was refused for the
\* advertised length, not for the payload length
C15_Witness ==
    /\ codec.stage = "decoded"
    /\ codec.op = "from_full_bytes"
    /\ codec.kind = "TransactionBroadcast"
    /\ Len(codec.bytes) = 3 + 1605
    /\ codec.result = [ok |-> FALSE, error |-> <<"InvalidAdvertisedLength", 1604, 1605>>]

(***************************************************************************)
(* TinyHashCache on its own, for every capacity and every feed offered     *)
(***************************************************************************)
NextCache == \E blob \in 1..NumBlobs : Len(cache_log) < MaxFeeds /\ CacheInsert(blob)

SpecCache == InitIngest /\ [][NextCache]_vars

\* C16: the queue is as long as the set is large, at most the capacity, and holds the
\* elements of the set; insert returns true iff the blob was absent; a present blob
\* changes neither contents nor order; an absent blob is appended, after the oldest
\* element has left queue and set when the cache was full.
C16_CacheInvariants ==
    /\ [](/\ Len(cache_queue) = Cardinality(cache_set)
          /\ Len(cache_queue) <= cache_capacity
          /\ cache_set = {cache_queue[i] : i \in 1..Len(cache_queue)})
    /\ [][\A blob \in 1..NumBlobs :
             CacheInsert(blob) =>
                /\ cache_log'[Len(cache_log')].ret = (blob \notin cache_set)
                /\ blob \in cache_set => UNCHANGED <<cache_queue, cache_set>>
                /\ (blob \notin cache_set /\ Len(cache_queue) < cache_capacity) =>
                       /\ cache_queue' = Append(cache_queue, blob)
                       /\ cache_set' = cache_set \cup {blob}
                /\ (blob \notin cache_set /\ Len(cache_queue) = cache_capacity) =>
                       /\ cache_queue' = Append(Tail(cache_queue), blob)
                       /\ cache_set' = (cache_set \ {Head(cache_queue)}) \cup {blob}]_vars

\* a full cache of capacity 2 has evicted its oldest blob, and a present blob was refused
C16_Witness ==
    /\ cache_capacity = 2
    /\ cache_log = <<[blob |-> 1, ret |-> TRUE], [blob |-> 2, ret |-> TRUE],
                     [blob |-> 2, ret |-> FALSE], [blob |-> 3, ret |-> TRUE]>>
    /\ cache_queue = <<2, 3>>

\* the feed a, b, c, a, d, b (blobs 1, 2, 3, 1, 4, 2) to a cache of capacity 3
FedABCADB ==
    /\ cache_capacity = 3
    /\ [i \in 1..Len(cache_log) |-> cache_log[i].blob] = <<1, 2, 3, 1, 4, 2>>

\* C17 as stated: the flags are [true, true, true, false, true, true] and the cache holds
\* exactly {a, d, b} afterwards.
C17_FlagsAndContents ==
    FedABCADB =>
        /\ [i \in 1..Len(cache_log) |-> cache_log[i].ret]
               = <<TRUE, TRUE, TRUE, FALSE, TRUE, TRUE>>
        /\ cache_set = {1, 4, 2}

\* C17 as amended: a duplicate does not refresh its place, so d evicts a and the second b
\* is still present: the flags are [true, true, true, false, true, false] and the cache
\* holds exactly {b, c, d}, in that order of age.
C17_FifoFlagsAndContents ==
    FedABCADB =>
        /\ [i \in 1..Len(cache_log) |-> cache_log[i].ret]
               = <<TRUE, TRUE, TRUE, FALSE, TRUE, FALSE>>
        /\ cache_set = {2, 3, 4}
        /\ cache_queue = <<2, 3, 4>>

C17_Witness == FedABCADB /\ cache_set = {2, 3, 4}

(***************************************************************************)
(* The traversals on the tangles of the tests and on freely built ones     *)
(***************************************************************************)
\* create_random_attached_tx(branch, trunk): transaction number k with its hash; hashes
\* are numbered, a = 1 .. z = 26, the solid entry points sep1 .. sep6 = 27 .. 32, other
\* numbers are hashes of nothing stored; the address is "x" for odd and "y" for even k
WalkTx(k, branch, trunk) ==
    [hash |-> MkHash(k),
     transaction |-> [trunk |-> MkHash(trunk), branch |-> MkHash(branch),
                      address |-> IF k % 2 = 1 THEN "x" ELSE "y"]]

\* the tangles of the tests, in the order of their insert_transaction calls
Fixtures ==
    [test |-> <<WalkTx(1, 41, 42), WalkTx(2, 43, 44), WalkTx(3, 1, 2), WalkTx(4, 3, 1),
                WalkTx(5, 3, 4)>>,
     rfc5 |-> <<WalkTx(1, 27, 28), WalkTx(2, 29, 30), WalkTx(3, 31, 32), WalkTx(4, 2, 1),
                WalkTx(5, 2, 1), WalkTx(6, 3, 2), WalkTx(7, 5, 4), WalkTx(8, 6, 5),
                WalkTx(9, 3, 6), WalkTx(10, 8, 7), WalkTx(11, 9, 8), WalkTx(12, 10, 7),
                WalkTx(13, 8, 10), WalkTx(14, 11, 8), WalkTx(15, 9, 11),
                WalkTx(16, 9, 11), WalkTx(17, 13, 12), WalkTx(18, 13, 12),
                WalkTx(19, 15, 14), WalkTx(20, 16, 15), WalkTx(21, 18, 17),
                WalkTx(22, 19, 18), WalkTx(23, 20, 19), WalkTx(24, 21, 17),
                WalkTx(25, 22, 21), WalkTx(26, 19, 22)>>]

\* the filters passed to the trunk walks: |tx| true, and one refusing an address
WalkFilters == {[kind |-> "all"], [kind |-> "except", addresses |-> {"x"}]}

\* a traversal is run from `start` and its result kept
Walk(op, start, filter) ==
    /\ walked' =
          [op |-> op, fixture |-> walked.fixture, start |-> start, filter |-> filter,
           result |->
              CASE op = "trunk_walk_approvers" ->
                      trunk_walk_approvers(vertices, approvers, start, filter)
                [] op = "trunk_walk_approvees" ->
                      trunk_walk_approvees(vertices, filter, start, <<>>, MaxWalkSteps)
                [] op = "walk_approvers_post_order_dfs" ->
                      walk_approvers_post_order_dfs(vertices, solid_entry_points, <<start>>,
                                                    {}, <<>>, <<>>, MaxWalkSteps)
                [] op = "walk_approvees_depth_first" ->
                      walk_approvees_depth_first(vertices, solid_entry_points, filter,
                                                 <<start>>, {}, <<>>, <<>>, MaxWalkSteps)]
    /\ UNCHANGED <<tangleVars, queueVars, protocolVars, ingestVars, senderVars, codec, teardown, workers, calls>>

InitWalk ==
    /\ TangleInit
    /\ QueueInit
    /\ ProtocolInit
    /\ CacheNew(MaxCapacity)
    /\ IngestInit
    /\ SenderInit
    /\ codec = NoCodec
    /\ \E fixture \in {"test", "rfc5", "any"} : walked = [NoWalk EXCEPT !.fixture = fixture]
    /\ LifeInit

\* the tangle is built, by the script of the fixture or freely (a transaction refers to
\* hashes of smaller numbers, in any order of arrival), until a traversal is run
NextWalk ==
    \/ /\ walked = [NoWalk EXCEPT !.fixture = "rfc5"]
       /\ size = 0
       /\ Cardinality(solid_entry_points) < 6
       /\ add_solid_entry_point(MkHash(27 + Cardinality(solid_entry_points)))
    \/ \E fixture \in DOMAIN Fixtures :
          /\ walked = [NoWalk EXCEPT !.fixture = fixture]
          /\ fixture = "rfc5" => Cardinality(solid_entry_points) = 6
          /\ size < Len(Fixtures[fixture])
          /\ InsertTransaction(Fixtures[fixture][size + 1].transaction,
                               Fixtures[fixture][size + 1].hash)
    \/ \E k \in 1..MaxWalkTxs : \E branch, trunk \in 0..(k - 1) :
          /\ walked = [NoWalk EXCEPT !.fixture = "any"]
          /\ MkHash(k) \notin DOMAIN vertices
          /\ InsertTransaction(WalkTx(k, branch, trunk).transaction, MkHash(k))
    \/ \E op \in {"trunk_walk_approvers", "trunk_walk_approvees",
                   "walk_approvers_post_order_dfs", "walk_approvees_depth_first"},
          k \in 0..26, filter \in WalkFilters :
          /\ walked.op = "none"
          /\ k <= (IF walked.fixture = "any" THEN MaxWalkTxs
                   ELSE Len(Fixtures[walked.fixture]))
          /\ op = "walk_approvers_post_order_dfs" => filter.kind = "all"
          /\ Walk(op, MkHash(k), filter)

SpecWalk == InitWalk /\ [][NextWalk]_vars

\* the stored transaction of the hash passes the filter
Passes(filter, hash) ==
    filter.kind = "all" \/ vertices[hash].transaction.address \notin filter.addresses

\* the hash is stored, has `current` as trunk and passes the filter
Qualifies(filter, hash, current) ==
    /\ hash \in DOMAIN vertices
    /\ vertices[hash].transaction.trunk = current
    /\ Passes(filter, hash)

\* the fixture of the tests is complete
FixtureBuilt(fixture) == walked.fixture = fixture /\ size = Len(Fixtures[fixture])

\* C18: trunk_walk_approvers(start, filter) returns a chain that begins with start (empty
\* if start is absent or fails the filter); each next element is the first hash, in the
\* insertion order of approvers[current], that is stored with trunk = current and passes
\* the filter; the chain ends where there is none. On the fixture of the tests the
\* result from a with |tx| true is [a, d, e].
C18_TrunkWalkApprovers ==
    [][\A k \in 0..26, filter \in WalkFilters :
          Walk("trunk_walk_approvers", MkHash(k), filter) =>
             LET c == walked'.result.collected
                 list(h) == IF h \in DOMAIN approvers THEN approvers[h] ELSE <<>>
             IN  /\ walked'.result.done
                 /\ IF MkHash(k) \in DOMAIN vertices /\ Passes(filter, MkHash(k))
                    THEN /\ c # <<>>
                         /\ c[1] = MkHash(k)
                         /\ \A i \in 1..Len(c) :
                                c[i] \in DOMAIN vertices /\ Passes(filter, c[i])
                         /\ \A i \in 1..(Len(c) - 1) :
                                \E j \in 1..Len(list(c[i])) :
                                   /\ list(c[i])[j] = c[i + 1]
                                   /\ Qualifies(filter, c[i + 1], c[i])
                                   /\ \A j2 \in 1..(j - 1) :
                                          ~Qualifies(filter, list(c[i])[j2], c[i])
                         /\ \A j \in 1..Len(list(c[Len(c)])) :
                                ~Qualifies(filter, list(c[Len(c)])[j], c[Len(c)])
                    ELSE c = <<>>
                 /\ (FixtureBuilt("test") /\ k = 1 /\ filter.kind = "all")
                        => c = <<MkHash(1), MkHash(4), MkHash(5)>>]_vars

\* on the fixture of the tests the walk from a returned [a, d, e]
C18_Witness ==
    /\ FixtureBuilt("test")
    /\ walked.op = "trunk_walk_approvers"
    /\ walked.start = MkHash(1)
    /\ walked.filter.kind = "all"
    /\ walked.result.collected = <<MkHash(1), MkHash(4), MkHash(5)>>

\* C19: trunk_walk_approvees(start, filter) returns start and its successive trunk
\* ancestors, each the trunk of the one before, up to the first that is not stored or
\* fails the filter; every element passes the filter. On the fixture of the tests the
\* result from e with |tx| true is [e, d, a].
C19_TrunkWalkApprovees ==
    [][\A k \in 0..26, filter \in WalkFilters :
          Walk("trunk_walk_approvees", MkHash(k), filter) =>
             LET c == walked'.result.collected
                 ok(h) == h \in DOMAIN vertices /\ Passes(filter, h)
             IN  /\ walked'.result.done
                 /\ IF ok(MkHash(k))
                    THEN /\ c # <<>>
                         /\ c[1] = MkHash(k)
                         /\ \A i \in 1..Len(c) : ok(c[i])
                         /\ \A i \in 1..(Len(c) - 1) :
                                vertices[c[i]].transaction.trunk = c[i + 1]
                         /\ ~ok(vertices[c[Len(c)]].transaction.trunk)
                    ELSE c = <<>>
                 /\ (FixtureBuilt("test") /\ k = 5 /\ filter.kind = "all")
                        => c = <<MkHash(5), MkHash(4), MkHash(1)>>]_vars

\* on the fixture of the tests the walk from e returned [e, d, a]
C19_Witness ==
    /\ FixtureBuilt("test")
    /\ walked.op = "trunk_walk_approvees"
    /\ walked.start = MkHash(5)
    /\ walked.filter.kind = "all"
    /\ walked.result.collected = <<MkHash(5), MkHash(4), MkHash(1)>>

\* the order in which the walk from v emits the RFC-0005 fixture:
\* a, b, d, e, g, c, f, h, j, l, m, r, i, k, n, o, s, v
Rfc5Order ==
    [i \in 1..18 |->
        MkHash(<<1, 2, 4, 5, 7, 3, 6, 8, 10, 12, 13, 18, 9, 11, 14, 15, 19, 22>>[i])]

\* C20: walk_approvers_post_order_dfs calls map on stored hashes only, at most once per
\* hash, and on a hash only after its trunk and its branch have been emitted or found
\* absent (an absent one that is no solid entry point is reported missing); the root is
\* emitted last; the trunk is explored before the branch: the walk begins with the whole
\* walk from the root's trunk. On the RFC-0005 fixture the walk from v emits
\* [a, b, d, e, g, c, f, h, j, l, m, r, i, k, n, o, s, v].
C20_PostOrderDfs ==
    [][\A k \in 0..26 :
          Walk("walk_approvers_post_order_dfs", MkHash(k), [kind |-> "all"]) =>
             LET c == walked'.result.collected
                 missing == walked'.result.missing
                 before(h, i) ==
                    IF h \in DOMAIN vertices
                    THEN \E j \in 1..(i - 1) : c[j] = h
                    ELSE h \in solid_entry_points
                            \/ \E j \in 1..Len(missing) : missing[j] = h
                 ofTrunk ==
                    walk_approvers_post_order_dfs(
                        vertices, solid_entry_points,
                        <<vertices[MkHash(k)].transaction.trunk>>, {}, <<>>, <<>>,
                        MaxWalkSteps).collected
             IN  /\ walked'.result.done
                 /\ \A i \in 1..Len(c) :
                        /\ c[i] \in DOMAIN vertices
                        /\ \A j \in 1..Len(c) : c[j] = c[i] => j = i
                        /\ before(vertices[c[i]].transaction.trunk, i)
                        /\ before(vertices[c[i]].transaction.branch, i)
                 /\ IF MkHash(k) \in DOMAIN vertices
                    THEN /\ c # <<>>
                         /\ c[Len(c)] = MkHash(k)
                         /\ SubSeq(c, 1, Len(ofTrunk)) = ofTrunk
                    ELSE c = <<>>
                 /\ (FixtureBuilt("rfc5") /\ k = 22) => c = Rfc5Order]_vars

\* on the RFC-0005 fixture the walk from v emitted the 18 hashes in the stated order and
\* reported nothing missing
C20_Witness ==
    /\ FixtureBuilt("rfc5")
    /\ walked.op = "walk_approvers_post_order_dfs"
    /\ walked.start = MkHash(22)
    /\ walked.result.collected = Rfc5Order
    /\ walked.result.missing = <<>>

\* the hashes the depth-first walk reaches from the hashes of S within n expansions: a
\* stored hash that should be followed leads to its trunk and its branch
RECURSIVE Reached(_, _)
Reached(S, n) ==
    IF n = 0 THEN S
    ELSE Reached(S \cup UNION {{vertices[h].transaction.trunk, vertices[h].transaction.branch} :
                                  h \in {x \in S \cap DOMAIN vertices :
                                             Passes(walked.filter, x)}}, n - 1)

\* C21: walk_approvees_depth_first maps the stored hashes reached from the root, each
\* once, in pre-order (the root first, every other hash after a followed hash it is trunk
\* or branch of) with the trunk before the branch (a followed hash is directly succeeded
\* by its trunk when that is stored and not yet mapped); a hash that should not be
\* followed is mapped and not expanded; on_missing is called exactly for the reached
\* hashes that are neither stored nor solid entry points, once each. On the fixture of
\* the tests the walk from e maps e, d, a, c, b.
C21_DepthFirst ==
    walked.op = "walk_approvees_depth_first" =>
        LET c == walked.result.collected
            missing == walked.result.missing
            reached == Reached({walked.start}, size + 1)
            tx(h) == vertices[h].transaction
        IN  /\ walked.result.done
            /\ {c[i] : i \in 1..Len(c)} = reached \cap DOMAIN vertices
            /\ {missing[i] : i \in 1..Len(missing)}
                   = (reached \ DOMAIN vertices) \ solid_entry_points
            /\ \A i, j \in 1..Len(c) : c[i] = c[j] => i = j
            /\ \A i, j \in 1..Len(missing) : missing[i] = missing[j] => i = j
            /\ walked.start \in DOMAIN vertices => c[1] = walked.start
            /\ \A i \in 2..Len(c) :
                   \E j \in 1..(i - 1) :
                      /\ Passes(walked.filter, c[j])
                      /\ c[i] \in {tx(c[j]).trunk, tx(c[j]).branch}
            /\ \A i \in 1..Len(c) :
                   (/\ Passes(walked.filter, c[i])
                    /\ tx(c[i]).trunk \in DOMAIN vertices
                    /\ \A j \in 1..i : c[j] # tx(c[i]).trunk)
                       => (i < Len(c) /\ c[i + 1] = tx(c[i]).trunk)
            /\ (FixtureBuilt("test") /\ walked.start = MkHash(5)
                    /\ walked.filter.kind = "all")
                   => c = <<MkHash(5), MkHash(4), MkHash(1), MkHash(3), MkHash(2)>>

\* on the fixture of the tests the walk from e mapped e, d, a, c, b and reported the four
\* unknown parents of a and b missing
C21_Witness ==
    /\ FixtureBuilt("test")
    /\ walked.op = "walk_approvees_depth_first"
    /\ walked.start = MkHash(5)
    /\ walked.filter.kind = "all"
    /\ walked.result.collected = <<MkHash(5), MkHash(4), MkHash(1), MkHash(3), MkHash(2)>>
    /\ Len(walked.result.missing) = 4

(***************************************************************************)
(* SpecTeardown: Tangle::shutdown and the solidifier while                 *)
(* insert_transaction calls go on, those of the ingest worker included.    *)
(***************************************************************************)
NextTeardown ==
    \/ \E transaction \in Transactions, hash \in Hashes :
          /\ ApproverEntries < MaxApproverEntries
          /\ teardown.solidifier = "dropped" => InsertReturn(hash) = "none"
          /\ InsertTransaction(transaction, hash)
    \/ \E transaction \in Transactions, hash \in Hashes :
          /\ ApproverEntries < MaxApproverEntries
          /\ InsertTransactionClosed(transaction, hash)
    \/ shutdown
    \/ Solidifier
    \/ WorkerShutdown("ingest")
    \/ WorkerStop("ingest")

SpecTeardown == Init /\ [][NextTeardown]_vars

\* C22: shutdown returns only after the solidifier has reached the drop barrier; once it
\* has returned every hash emitted on the solidifier channel was handled; and no hash is
\* emitted on the channel after the sentinel, whatever insert_transaction calls run
\* beside shutdown.
C22_TeardownDrainsTheChannel ==
    /\ teardown.shutdown = "returned" => teardown.solidifier \in {"at_barrier", "dropped"}
    /\ teardown.shutdown = "returned" => teardown.handled = Len(solidifier_send)
    /\ teardown.sentinel >= 0 => Len(solidifier_send) = teardown.sentinel

\* C23: no error met while an event is processed takes a worker out of its loop: a
\* worker that is no longer in its loop has stopped at its shutdown signal.
C23_OnlyShutdownEndsAWorker ==
    \A w \in Workers :
        workers[w].pc \notin {"select", "sending"}
            => (workers[w].pc = "stopped" /\ workers[w].shutdown)

(***************************************************************************)
(* FairWorkers: the loops of the four workers, their shutdown signals and  *)
(* inbound channels, under the scheduling of the executor.  Every task     *)
(* that can take a step is polled (weak fairness of the handlers and of a  *)
(* waiting send that can complete), and a select with both branches ready  *)
(* picks one pseudo-randomly, so the shutdown branch of a worker that      *)
(* comes back to its select again and again is taken at last (strong       *)
(* fairness of WorkerStop).                                                *)
(***************************************************************************)
NextLoops ==
    \/ \E w \in Workers, outcome \in UNION {Outcomes(x) : x \in Workers} :
          WorkerEvent(w, outcome)
    \/ \E w \in Workers : SendCompletes(w)
    \/ \E w \in Workers : WorkerStop(w)
    \/ \E w \in Workers : WorkerShutdown(w)
    \/ \E w \in Workers : CloseInbound(w)

FairWorkers ==
    /\ Init
    /\ [][NextLoops]_vars
    /\ \A w \in Workers :
          /\ SF_vars(WorkerStop(w))
          /\ WF_vars(SendCompletes(w))
          /\ WF_vars(\E outcome \in Outcomes(w) : WorkerEvent(w, outcome))

\* C24: a worker whose shutdown signal has fired leaves its loop at last, also while
\* events keep arriving and also when the handler waits in a send on a full channel (the
\* send ends once the channel has room or its receiver is dropped); and a worker stops
\* only at its shutdown signal, a closed inbound channel alone does not stop it.
C24_ShutdownStopsTheWorker ==
    \A w \in Workers :
        /\ [](workers[w].pc = "stopped" => workers[w].shutdown)
        /\ [](workers[w].closed /\ ~workers[w].shutdown => workers[w].pc # "stopped")
        /\ workers[w].shutdown ~> workers[w].pc \notin {"select", "sending"}

\* the ingest worker has stopped at its shutdown signal while its inbound channel is open
\* and the channel of the milestone validator, still in its loop, is full
C24_Witness ==
    /\ workers["ingest"].pc = "stopped"
    /\ workers["ingest"].shutdown
    /\ ~workers["ingest"].closed
    /\ workers["milestone_validator"].pc = "select"
    /\ workers["milestone_validator"].inbox = MaxInbox

(***************************************************************************)
(* SpecRace: three tasks in insert_transaction at once, each call taken    *)
(* step by step, and a reader that walks the tangle as it finds it.        *)
(***************************************************************************)
NextRace ==
    \/ \E t \in {"t1", "t2", "t3"}, k \in 1..NumHashes :
          \E branch, trunk \in 0..(k - 1) :
             /\ walked.op = "none"
             /\ InsertTrunk(t, WalkTx(k, branch, trunk).transaction, MkHash(k))
    \/ \E t \in {"t1", "t2", "t3"} : walked.op = "none" /\ InsertBranch(t)
    \/ \E t \in {"t1", "t2", "t3"} : walked.op = "none" /\ InsertVertex(t)
    \/ \E k \in 0..NumHashes :
          /\ walked.op = "none"
          /\ Walk("trunk_walk_approvers", MkHash(k), [kind |-> "all"])

SpecRace == Init /\ [][NextRace]_vars

\* C31: in every state between the steps of insert_transaction calls that run side by
\* side, a stored hash with transaction tx is in approvers[tx.trunk] and in
\* approvers[tx.branch] (an approver list may hold a hash whose vertex is not stored yet,
\* never the reverse); a trunk_walk_approvers made in such a state ends, and what it
\* collects is stored: an approver hash without vertex is passed over.
C31_ApproversBeforeVertex ==
    /\ \A h \in DOMAIN vertices :
           /\ InSeq(h, ApproversOf(vertices[h].transaction.trunk))
           /\ InSeq(h, ApproversOf(vertices[h].transaction.branch))
    /\ walked.op = "trunk_walk_approvers" =>
           /\ walked.result.done
           /\ \A i \in 1..Len(walked.result.collected) :
                  walked.result.collected[i] \in DOMAIN vertices
           /\ walked.start \in DOMAIN vertices =>
                  /\ walked.result.collected # <<>>
                  /\ walked.result.collected[1] = walked.start

\* a walk was made from a stored hash whose approver list holds a hash that is not stored
\* yet: the walk collected the start and passed the approver over
C31_Witness ==
    /\ walked.op = "trunk_walk_approvers"
    /\ walked.start \in DOMAIN vertices
    /\ \E i \in 1..Len(ApproversOf(walked.start)) :
           ApproversOf(walked.start)[i] \notin DOMAIN vertices
    /\ walked.result.collected = <<walked.start>>

\* C37: of the insert_transaction calls made side by side with one hash h, at most one
\* has returned a handle and at most one Some(h) is on the solidifier channel; once all
\* of them have returned, exactly one has returned a handle, the others none, and the
\* channel holds Some(h) exactly once.
C37_OneWriterWins ==
    \A k \in 1..NumHashes :
        LET callers == {t \in {"t1", "t2", "t3"} :
                           calls[t].pc # "idle" /\ calls[t].hash = MkHash(k)}
            winners == {t \in callers : calls[t].ret = "some"}
        IN  /\ Cardinality(winners) <= 1
            /\ Count(MkHash(k), solidifier_send) = Cardinality(winners)
            /\ \A t \in callers : calls[t].pc = "done" => calls[t].ret \in {"some", "none"}
            /\ (callers # {} /\ \A t \in callers : calls[t].pc = "done")
                   => Cardinality(winners) = 1

\* three calls with the same hash have returned: one handle, two none
C37_Witness ==
    /\ \A t \in {"t1", "t2", "t3"} : calls[t].pc = "done" /\ calls[t].hash = MkHash(1)
    /\ Cardinality({t \in {"t1", "t2", "t3"} : calls[t].ret = "none"}) = 2
    /\ solidifier_send = <<MkHash(1)>>

(***************************************************************************)
(* SpecClosed: broadcasts while sender tasks end and their contexts stay   *)
(***************************************************************************)
NextClosed ==
    \/ \E epid \in Peers : InstallContext(epid)
    \/ \E epid \in Peers, kind \in Kinds : SenderShutdown(epid, kind)
    \/ \E kind \in Kinds, order \in [contexts -> 1..Cardinality(contexts)] :
          /\ \A e1, e2 \in contexts : e1 # e2 => order[e1] # order[e2]
          /\ enqueued + Cardinality(contexts) <= MaxMessages
          /\ SenderBroadcast(kind, order)

SpecClosed == Init /\ [][NextClosed]_vars

\* C32: a broadcast of a message of kind k appends one copy to the channel of kind k of
\* every peer that has a context and whose channel has its receiver, whatever the place
\* in the loop of the peers whose channel is closed; for each of these the failure is
\* logged once and nothing is queued; no other channel changes.
C32_BroadcastPassesClosedChannels ==
    [][enqueued' # enqueued =>
         \E kind \in Kinds :
            /\ \A e \in Peers, k \in Kinds :
                  IF k = kind /\ e \in contexts /\ <<e, k>> \notin closed
                  THEN /\ Len(Events(e, k)') = Len(Events(e, k)) + 1
                       /\ SubSeq(Events(e, k)', 1, Len(Events(e, k))) = Events(e, k)
                       /\ Events(e, k)'[Len(Events(e, k)')].kind = kind
                       /\ Events(e, k)'[Len(Events(e, k)')].seq \in
                              (enqueued + 1)..(enqueued + Cardinality(contexts))
                  ELSE Events(e, k)' = Events(e, k)
            /\ {<<f.epid, f.kind>> : f \in send_failed' \ send_failed}
                  = {c \in closed : c[1] \in contexts /\ c[2] = kind}
            /\ Cardinality(send_failed' \ send_failed)
                  = Cardinality({c \in closed : c[1] \in contexts /\ c[2] = kind})
            /\ send_failed \subseteq send_failed']_vars

\* in one broadcast the send to the first peer failed on its closed channel and the send
\* to the second peer, later in the loop, queued the copy
C32_Witness ==
    \E kind \in Kinds, f \in send_failed :
        /\ f.kind = kind
        /\ f.epid = "epid1"
        /\ Events("epid2", kind) # <<>>
        /\ Events("epid2", kind)[Len(Events("epid2", kind))].seq = f.seq + 1
        /\ enqueued = f.seq + 1

(***************************************************************************)
(* SpecValidator: the milestone validator beside the ingest worker that    *)
(* stores the bundle of the coordinator and a tail of another address      *)
(***************************************************************************)
NextValidator ==
    \/ \E payload \in Payloads :
          /\ ilast.seq < MaxEvents
          /\ payload.id \in {"tail", "head", "plain"}
          /\ process_transaction_brodcast("epid1", payload)
    \/ \E k \in 1..4, built \in (-1)..(MaxMilestoneIndex + 1) :
          MilestoneValidatorRun(MkHash(k), built)

SpecValidator == Init /\ [][NextValidator]_vars

\* the hash reached from the stored hash by following the trunk n times, as far as the
\* transactions on the way are stored
RECURSIVE TrunkAncestor(_, _)
TrunkAncestor(hash, n) ==
    IF n = 0 \/ hash \notin DOMAIN vertices THEN hash
    ELSE TrunkAncestor(vertices[hash].transaction.trunk, n - 1)

\* C33: a turn of the validator for a tail hash yields UnknownTail when the hash is not
\* stored, NotATail when the stored transaction has an index other than 0, and
\* IncompleteBundle when it is a tail and one of the security_level transactions along
\* its trunks is not stored; after every error the milestones, the milestone flags and
\* the last milestone index are as before and the worker is in its loop.
C33_ValidatorErrors ==
    [][\A k \in 1..4, built \in (-1)..(MaxMilestoneIndex + 1) :
          MilestoneValidatorRun(MkHash(k), built) =>
             LET ret == calls'["milestone_validator"].ret
                 stored == MkHash(k) \in DOMAIN vertices
                 tail == stored /\ vertices[MkHash(k)].transaction.index = 0
             IN  /\ ~stored => ret = "UnknownTail"
                 /\ (stored /\ ~tail) => ret = "NotATail"
                 /\ (tail /\ TrunkAncestor(MkHash(k), SecurityLevel) \notin DOMAIN vertices)
                       => ret = "IncompleteBundle"
                 /\ (tail /\ TrunkAncestor(MkHash(k), SecurityLevel) \in DOMAIN vertices)
                       => ret \in {"none", "InvalidMilestone"}
                 /\ ret # "none" =>
                       /\ UNCHANGED <<milestones, last_milestone_index, vertices>>
                       /\ workers'["milestone_validator"].pc = "select"]_vars

\* the head of the bundle, stored without its trunk, was offered as a tail and refused
\* as NotATail, after a milestone had been recorded
C33_Witness ==
    /\ calls["milestone_validator"].pc = "done"
    /\ calls["milestone_validator"].hash = HeadHash
    /\ calls["milestone_validator"].ret = "NotATail"
    /\ HeadHash \in DOMAIN vertices
    /\ vertices[HeadHash].transaction.trunk \notin DOMAIN vertices
    /\ milestones # <<>>

\* the greatest of a non-empty set of numbers
Greatest(S) == CHOOSE n \in S : \A m \in S : m <= n

\* C34: a valid milestone m is recorded as milestones[m.index] = m.hash; the last
\* milestone index never decreases and is, after any number of turns of the validator,
\* the greatest of its initial value and the indices validated.
C34_LastMilestoneIndex ==
    /\ [](last_milestone_index = Greatest({0} \cup DOMAIN milestones))
    /\ [][/\ last_milestone_index' >= last_milestone_index
          /\ \A k \in 1..4, built \in (-1)..(MaxMilestoneIndex + 1) :
                (MilestoneValidatorRun(MkHash(k), built)
                     /\ calls'["milestone_validator"].ret = "none")
                   => /\ built \in DOMAIN milestones'
                      /\ milestones'[built] = MkHash(k)]_vars

\* a milestone of a smaller index was validated after one of a greater index: the last
\* milestone index stayed
C34_Witness ==
    /\ calls["milestone_validator"].pc = "done"
    /\ calls["milestone_validator"].ret = "none"
    /\ calls["milestone_validator"].index = 1
    /\ DOMAIN milestones = {1, 2}
    /\ milestones[1] = TailHash
    /\ last_milestone_index = 2

(***************************************************************************)
(* SpecCycle: the trunk walks and the post-order traversal on every store  *)
(* insert_transaction builds from any transactions under any hashes        *)
(***************************************************************************)
\* a traversal with the filter |tx| true is run from `start` and followed for
\* MaxCycleSteps turns of its loop, more than a loop that ends takes on these stores
WalkCycle(op, start) ==
    /\ walked' =
          [op |-> op, fixture |-> walked.fixture, start |-> start,
           filter |-> [kind |-> "all"],
           result |->
              CASE op = "trunk_walk_approvers" ->
                      IF start \in DOMAIN vertices
                      THEN TrunkWalkApproversLoop(vertices, approvers, [kind |-> "all"],
                               start, <<vertices[start].id>>, MaxCycleSteps)
                      ELSE [done |-> TRUE, collected |-> <<>>]
                [] op = "trunk_walk_approvees" ->
                      trunk_walk_approvees(vertices, [kind |-> "all"], start, <<>>,
                                           MaxCycleSteps)
                [] op = "walk_approvers_post_order_dfs" ->
                      walk_approvers_post_order_dfs(vertices, solid_entry_points, <<start>>,
                                                    {}, <<>>, <<>>, MaxCycleSteps)]
    /\ UNCHANGED <<tangleVars, queueVars, protocolVars, ingestVars, senderVars, codec, teardown, workers, calls>>

NextCycle ==
    \/ \E transaction \in Transactions, hash \in Hashes :
          /\ walked.op = "none"
          /\ ApproverEntries < MaxApproverEntries
          /\ InsertTransaction(transaction, hash)
    \/ \E op \in {"trunk_walk_approvers", "trunk_walk_approvees",
                   "walk_approvers_post_order_dfs"}, start \in Hashes :
          /\ walked.op = "none"
          /\ WalkCycle(op, start)

SpecCycle == Init /\ [][NextCycle]_vars

\* C35: trunk_walk_approvers, trunk_walk_approvees and walk_approvers_post_order_dfs end
\* on every store that insert_transaction calls with any transactions and hashes build,
\* a stored transaction whose trunk or branch is its own hash included.
C35_WalksTerminate ==
    walked.op \in {"trunk_walk_approvers", "trunk_walk_approvees",
                   "walk_approvers_post_order_dfs"} => walked.result.done

(***************************************************************************)
(* SpecStale: the requester, its turn taken step by step, beside the       *)
(* ingest worker                                                           *)
(***************************************************************************)
NextStale ==
    \/ \E payload \in Payloads :
          /\ ilast.seq < MaxEvents
          /\ payload.id \in {"tail", "head", "plain"}
          /\ process_transaction_brodcast("epid1", payload)
    \/ \E k \in 1..3 : RequesterStep(Entry(MkHash(k), 1))
    \/ Handshake("epid1")

SpecStale == Init /\ [][NextStale]_vars

\* C38: whenever the requester and the ingest worker are both idle, no hash of the
\* requested-map is stored in the tangle, however the steps of the requester (test that
\* h is not stored, then record h) and the ingest worker (store h, then remove h from the
\* requested-map) were interleaved.
C38_RequestedNotStored ==
    calls["requester"].pc = "idle" =>
        \A hash \in DOMAIN requested : hash \notin DOMAIN vertices

(***************************************************************************)
(* SpecBundle: the bundle of the coordinator ingested beside a transaction *)
(* of another sender that names the bundle and has the head as its trunk   *)
(***************************************************************************)
NextBundle ==
    LET tail == CHOOSE payload \in Payloads : payload.id = "tail"
        rival == [tail EXCEPT !.id = "rival", !.hash = MkHash(7),
                              !.transaction.address = "other",
                              !.transaction.index = 1]
    IN  \E from \in Peers, payload \in Payloads \cup {rival} :
           /\ ilast.seq < MaxEvents
           /\ payload.id \in {"tail", "head", "plain", "rival"}
           /\ process_transaction_brodcast(from, payload)

SpecBundle == Init /\ [][NextBundle]_vars

\* C40: once the tail and the head of the coordinator's bundle are stored, whatever else
\* is stored, the tail hash was sent to the milestone validator at or after the store of
\* the last of the two: at least once when the tail was stored last, and, when the tail
\* was stored first (which sent it once, before the bundle was complete), at least once
\* more.
C40_TailSentWhenComplete ==
    BundleStored =>
        Count(TailHash, milestone_validator_worker_tx) >= (IF TailFirst THEN 2 ELSE 1)

(***************************************************************************)
(* FairQueue: the queue with an executor that polls every woken task.  A   *)
(* task that was not woken is polled only when something else makes it     *)
(* run, and producers insert when they please: neither is assumed.         *)
(***************************************************************************)
FairQueue ==
    /\ Init
    /\ [][NextQueue]_vars
    /\ \A c \in Consumers : WF_vars(cstate[c] = "woken" /\ Poll(c))

\* C39: whenever the heap holds an entry and a consumer is suspended in a pending pop(),
\* a consumer that was suspended is woken at last and its poll takes an entry, also after
\* a pending pop was polled again or was abandoned; unless by then the heap was emptied
\* by others or every pending pop was given up.
C39_NoLostWakeup ==
    (heap # EmptyBag /\ \E c \in Consumers : cstate[c] = "pending")
        ~> \/ /\ qlast.op = "poll"
              /\ qlast.ret = "ready"
              /\ qlast.cstate_before[qlast.consumer] \in {"pending", "woken"}
           \/ heap = EmptyBag
           \/ \A c \in Consumers : cstate[c] = "idle"

====
